---- MODULE Spec2Model ----
(***************************************************************************)
(* UNO Lite (two players): the pure game engine (deck, rules, reducer) in  *)
(* its two rule variants, and the in-memory room registry that applies     *)
(* engine actions to a room.                                               *)
(*                                                                         *)
(*   variant = "number" : number-only deck, draw once per turn, must draw  *)
(*                        before pass                                      *)
(*   variant = "action" : numbers 0..9, Skip/Reverse/Draw2, Wild and the   *)
(*                        color-choice sub-phase                           *)
(***************************************************************************)
EXTENDS Integers, Sequences, FiniteSets, TLC

(***************************************************************************)
(* Bounds of the explored games.  The engine deals from a deck of 4 colors *)
(* with values up to 9 and hands of 7; the explored games use the same     *)
(* construction on a smaller deck so that whole games, wins and reshuffles *)
(* are reached.                                                            *)
(***************************************************************************)
NumColors == 2
MaxValue == 2
HandSize == 3
NumWilds == 2
NumSeeds == 3
MaxMovesNumber == 12
MaxMovesAction == 5
MaxMovesHoard == 9
NumHoardSeeds == 10
NumHandlers == 2
MaxMovesHandlers == 1
NumSeedsHandlers == 2
MaxMovesRooms == 1
MaxMovesLastCard == 7

RoomIds == {"R1"}
TwoRoomIds == {"R1", "R2"}
HandlerIds == 1 .. NumHandlers
HandlerSeeds == 0 .. (NumSeedsHandlers - 1)
UserIds == {1, 2}
Variants == {"number", "action"}
Seeds == 0 .. (NumSeeds - 1)
HoardSeeds == 0 .. (NumHoardSeeds - 1)

(***************************************************************************)
(* Program constants of the deck builders.                                 *)
(***************************************************************************)
AllColors == <<"red", "yellow", "green", "blue">>
SrcNumColors == 4
SrcMaxValue == 9
SrcNumWilds == 4
ActionKinds == <<"skip", "reverse", "draw2">>

Null == [kind |-> "null"]
NoColor == "null"
Undefined == "undefined"

VARIABLES
    variant,    \* which engine build is running
    rooms,      \* session.rooms : room id -> GameState
    last,       \* the most recent registry/engine call and its outcome
    moves,      \* room id -> successful moves since the room's game started
    handlers    \* command handler invocation -> where it is and what it holds

vars == <<variant, rooms, last, moves, handlers>>

(***************************************************************************)
(* Cards                                                                   *)
(***************************************************************************)
NumberCard(c, v) == [kind |-> "number", color |-> c, value |-> v]
ActionCardOf(c, a) == [kind |-> "action", color |-> c, action |-> a]
WildCard == [kind |-> "wild", action |-> "wild"]

RECURSIVE Flatten(_)
Flatten(ss) == IF ss = <<>> THEN <<>> ELSE Head(ss) \o Flatten(Tail(ss))

Repeat(x, n) == [i \in 1 .. n |-> x]

\* number-only deck before shuffling: 2 x 1..maxv per color
numberDeckCards(nc, maxv) ==
    Flatten([ci \in 1 .. nc |->
        Flatten([n \in 1 .. maxv |->
            <<NumberCard(AllColors[ci], n), NumberCard(AllColors[ci], n)>>])])

\* action/wild deck before shuffling: 0..maxv, Skip, Reverse, Draw2 per
\* color, then the Wilds
actionDeckCards(nc, maxv, nw) ==
    Flatten([ci \in 1 .. nc |->
        [n \in 1 .. (maxv + 1) |-> NumberCard(AllColors[ci], n - 1)]
        \o [k \in 1 .. Len(ActionKinds) |-> ActionCardOf(AllColors[ci], ActionKinds[k])]])
    \o Repeat(WildCard, nw)

(***************************************************************************)
(* shuffle: Fisher-Yates driven by Math.random().  The random source is a  *)
(* stream of values Random(seed, k) / 16 in [0, 1), k = 0, 1, ...; the     *)
(* seed is the nondeterministic input of every operation that shuffles.    *)
(***************************************************************************)
RECURSIVE Random(_, _)
Random(seed, k) ==
    IF k = 0 THEN (seed * 7 + 9) % 16 ELSE (5 * Random(seed, k - 1) + 3) % 16

Swap(a, i, j) == [a EXCEPT ![i + 1] = a[j + 1], ![j + 1] = a[i + 1]]

RECURSIVE shuffleFrom(_, _, _)
shuffleFrom(a, i, seed) ==
    IF i <= 0 THEN a
    ELSE LET j == (Random(seed, Len(a) - 1 - i) * (i + 1)) \div 16
         IN  shuffleFrom(Swap(a, i, j), i - 1, seed)

shuffle(arr, seed) == shuffleFrom(arr, Len(arr) - 1, seed)

createDeckNumber(seed) == shuffle(numberDeckCards(NumColors, MaxValue), seed)
createDeckAction(seed) == shuffle(actionDeckCards(NumColors, MaxValue, NumWilds), seed)

\* drawOne that refills the draw pile and leaves the discard pile empty
drawOneClearsDiscard(drawPile, discardPile, seed) ==
    IF Len(drawPile) = 0 /\ Len(discardPile) <= 1
    THEN [ok |-> FALSE, card |-> Null, newDraw |-> drawPile, newDiscard |-> discardPile]
    ELSE LET refill == Len(drawPile) = 0
             disc == IF refill THEN <<>> ELSE discardPile
             d == IF refill
                  THEN shuffle(SubSeq(discardPile, 1, Len(discardPile) - 1), seed)
                  ELSE drawPile
         IN  [ok |-> TRUE, card |-> d[1], newDraw |-> Tail(d), newDiscard |-> disc]

\* drawOne that shuffles the whole discard pile, top card included, into the
\* new draw pile
drawOneReshufflesTop(drawPile, discardPile, seed) ==
    IF Len(drawPile) = 0 /\ Len(discardPile) <= 1
    THEN [ok |-> FALSE, card |-> Null, newDraw |-> drawPile, newDiscard |-> discardPile]
    ELSE LET refill == Len(drawPile) = 0
             disc == IF refill THEN <<discardPile[Len(discardPile)]>> ELSE discardPile
             d == IF refill THEN shuffle(discardPile, seed) ELSE drawPile
         IN  [ok |-> TRUE, card |-> d[1], newDraw |-> Tail(d), newDiscard |-> disc]

\* drawOne that leaves the reshuffled cards on the discard pile as well
drawOneKeepsDiscard(drawPile, discardPile, seed) ==
    IF Len(drawPile) = 0 /\ Len(discardPile) <= 1
    THEN [ok |-> FALSE, card |-> Null, newDraw |-> drawPile, newDiscard |-> discardPile]
    ELSE LET d == IF Len(drawPile) = 0
                  THEN shuffle(SubSeq(discardPile, 1, Len(discardPile) - 1), seed)
                  ELSE drawPile
         IN  [ok |-> TRUE, card |-> d[1], newDraw |-> Tail(d), newDiscard |-> discardPile]

\* drawOne that shuffles the draw pile before every draw
drawOneShufflesFirst(drawPile, discardPile, seed) ==
    IF Len(drawPile) = 0 /\ Len(discardPile) <= 1
    THEN [ok |-> FALSE, card |-> Null, newDraw |-> drawPile, newDiscard |-> discardPile]
    ELSE LET refill == Len(drawPile) = 0
             disc == IF refill THEN <<discardPile[Len(discardPile)]>> ELSE discardPile
             d == IF refill
                  THEN shuffle(SubSeq(discardPile, 1, Len(discardPile) - 1), seed)
                  ELSE shuffle(drawPile, seed)
         IN  [ok |-> TRUE, card |-> d[1], newDraw |-> Tail(d), newDiscard |-> disc]

\* drawOne that takes the card at the back of the draw pile
drawOneTakesLast(drawPile, discardPile, seed) ==
    IF Len(drawPile) = 0 /\ Len(discardPile) <= 1
    THEN [ok |-> FALSE, card |-> Null, newDraw |-> drawPile, newDiscard |-> discardPile]
    ELSE LET refill == Len(drawPile) = 0
             disc == IF refill THEN <<discardPile[Len(discardPile)]>> ELSE discardPile
             d == IF refill
                  THEN shuffle(SubSeq(discardPile, 1, Len(discardPile) - 1), seed)
                  ELSE drawPile
         IN  [ok |-> TRUE, card |-> d[Len(d)], newDraw |-> SubSeq(d, 1, Len(d) - 1),
              newDiscard |-> disc]

(***************************************************************************)
(* drawOne: front card of the draw pile; an empty draw pile is refilled    *)
(* from the shuffled discard pile without its top card.                    *)
(***************************************************************************)
drawOne(drawPile, discardPile, seed) ==
    IF Len(drawPile) = 0 /\ Len(discardPile) <= 1
    THEN [ok |-> FALSE, card |-> Null, newDraw |-> drawPile, newDiscard |-> discardPile]
    ELSE LET refill == Len(drawPile) = 0
             disc == IF refill THEN <<discardPile[Len(discardPile)]>> ELSE discardPile
             d == IF refill
                  THEN shuffle(SubSeq(discardPile, 1, Len(discardPile) - 1), seed)
                  ELSE drawPile
         IN  [ok |-> TRUE, card |-> d[1], newDraw |-> Tail(d), newDiscard |-> disc]

(***************************************************************************)
(* Results of the rule functions: a new state, or a thrown error code      *)
(* together with the input state object as it is at the throw.             *)
(***************************************************************************)
Ok(s) == [err |-> "none", state |-> s]
Throw(code, s) == [err |-> code, state |-> s]

createEmptyGame(gameId) ==
    [id |-> gameId,
     phase |-> "waiting_for_players",
     players |-> <<Null, Null>>,
     currentPlayerIdx |-> 0,
     drawPile |-> <<>>,
     discardPile |-> <<>>,
     currentColor |-> NoColor,
     pendingDraw |-> 0,
     pendingSkip |-> FALSE,
     hasDrawnThisTurn |-> FALSE,
     winnerId |-> Undefined]

SlotName(slot) == IF slot = 0 THEN "p0" ELSE "p1"

\* joinGame without the capacity check: a third joiner takes slot 1
joinGameNoFullCheck(state, tgUserId) ==
    IF state.phase # "waiting_for_players" /\ state.phase # "ready_to_start"
    THEN Throw("bad_phase", state)
    ELSE LET slot == IF state.players[1] = Null THEN 0 ELSE 1
             player == [id |-> SlotName(slot), tgUserId |-> tgUserId, hand |-> <<>>]
             players == [state.players EXCEPT ![slot + 1] = player]
             phase == IF players[1] # Null /\ players[2] # Null
                      THEN "ready_to_start" ELSE "waiting_for_players"
         IN  Ok([state EXCEPT !.players = players, !.phase = phase])

\* joinGame that looks for an empty slot from the last slot down
joinGameLastSlotFirst(state, tgUserId) ==
    IF state.phase # "waiting_for_players" /\ state.phase # "ready_to_start"
    THEN Throw("bad_phase", state)
    ELSE IF state.players[1] # Null /\ state.players[2] # Null
    THEN Throw("full", state)
    ELSE LET slot == IF state.players[2] = Null THEN 1 ELSE 0
             player == [id |-> SlotName(slot), tgUserId |-> tgUserId, hand |-> <<>>]
             players == [state.players EXCEPT ![slot + 1] = player]
             phase == IF players[1] # Null /\ players[2] # Null
                      THEN "ready_to_start" ELSE "waiting_for_players"
         IN  Ok([state EXCEPT !.players = players, !.phase = phase])

joinGame(state, tgUserId) ==
    IF state.phase # "waiting_for_players" /\ state.phase # "ready_to_start"
    THEN Throw("bad_phase", state)
    ELSE IF state.players[1] # Null /\ state.players[2] # Null
    THEN Throw("full", state)
    ELSE LET slot == IF state.players[1] = Null THEN 0 ELSE 1
             player == [id |-> SlotName(slot), tgUserId |-> tgUserId, hand |-> <<>>]
             players == [state.players EXCEPT ![slot + 1] = player]
             phase == IF players[1] # Null /\ players[2] # Null
                      THEN "ready_to_start" ELSE "waiting_for_players"
         IN  Ok([state EXCEPT !.players = players, !.phase = phase])

\* a deal loop that stops one round early
RECURSIVE dealOneRoundShort(_, _, _, _)
dealOneRoundShort(k, draw, hands, seed) ==
    IF k = 2 * (HandSize - 1) THEN [ok |-> TRUE, draw |-> draw, hands |-> hands]
    ELSE LET r == drawOne(draw, <<>>, seed)
             i == k % 2
         IN  IF ~r.ok THEN [ok |-> FALSE, draw |-> draw, hands |-> hands]
             ELSE dealOneRoundShort(k + 1, r.newDraw,
                       [hands EXCEPT ![i + 1] = Append(hands[i + 1], r.card)], seed)

\* a deal loop that gives the first player a whole hand before the second
RECURSIVE dealEnBloc(_, _, _, _)
dealEnBloc(k, draw, hands, seed) ==
    IF k = 2 * HandSize THEN [ok |-> TRUE, draw |-> draw, hands |-> hands]
    ELSE LET r == drawOne(draw, <<>>, seed)
             i == k \div HandSize
         IN  IF ~r.ok THEN [ok |-> FALSE, draw |-> draw, hands |-> hands]
             ELSE dealEnBloc(k + 1, r.newDraw,
                       [hands EXCEPT ![i + 1] = Append(hands[i + 1], r.card)], seed)

\* the deal loop of startGame: k counts the cards dealt so far, card k goes
\* to player k % 2
RECURSIVE deal(_, _, _, _)
deal(k, draw, hands, seed) ==
    IF k = 2 * HandSize THEN [ok |-> TRUE, draw |-> draw, hands |-> hands]
    ELSE LET r == drawOne(draw, <<>>, seed)
             i == k % 2
         IN  IF ~r.ok THEN [ok |-> FALSE, draw |-> draw, hands |-> hands]
             ELSE deal(k + 1, r.newDraw,
                       [hands EXCEPT ![i + 1] = Append(hands[i + 1], r.card)], seed)

(***************************************************************************)
(* Number-only engine                                                      *)
(***************************************************************************)
\* startGame without the phase check: any room with two players is dealt
startGameNAnyPhase(state, seed) ==
    IF state.players[1] = Null \/ state.players[2] = Null
    THEN Throw("need_players", state)
    ELSE LET dealt == deal(0, createDeckNumber(seed), <<<<>>, <<>>>>, seed)
             flip == drawOne(dealt.draw, <<>>, seed)
         IN  IF ~dealt.ok \/ ~flip.ok THEN Throw("no_cards", state)
             ELSE LET top == flip.card
                      players == [i \in 1 .. 2 |->
                                    [state.players[i] EXCEPT !.hand = dealt.hands[i]]]
                  IN  Ok([state EXCEPT
                            !.phase = "in_progress",
                            !.players = players,
                            !.drawPile = flip.newDraw,
                            !.discardPile = <<top>>,
                            !.currentColor = top.color,
                            !.currentPlayerIdx = 0,
                            !.pendingDraw = 0,
                            !.pendingSkip = FALSE,
                            !.hasDrawnThisTurn = FALSE,
                            !.winnerId = Undefined])

startGameN(state, seed) ==
    IF state.phase # "ready_to_start" THEN Throw("bad_phase", state)
    ELSE IF state.players[1] = Null \/ state.players[2] = Null
    THEN Throw("need_players", state)
    ELSE LET dealt == deal(0, createDeckNumber(seed), <<<<>>, <<>>>>, seed)
             flip == drawOne(dealt.draw, <<>>, seed)
         IN  IF ~dealt.ok \/ ~flip.ok THEN Throw("no_cards", state)
             ELSE LET top == flip.card
                      players == [i \in 1 .. 2 |->
                                    [state.players[i] EXCEPT !.hand = dealt.hands[i]]]
                  IN  Ok([state EXCEPT
                            !.phase = "in_progress",
                            !.players = players,
                            !.drawPile = flip.newDraw,
                            !.discardPile = <<top>>,
                            !.currentColor = top.color,
                            !.currentPlayerIdx = 0,
                            !.pendingDraw = 0,
                            !.pendingSkip = FALSE,
                            !.hasDrawnThisTurn = FALSE,
                            !.winnerId = Undefined])

\* isPlayable that matches by color only
isPlayableColorOnly(card, currentColor, top) ==
    card.kind = "number" /\ currentColor # NoColor /\ card.color = currentColor

isPlayableN(card, currentColor, top) ==
    /\ card.kind = "number"
    /\ \/ (currentColor # NoColor /\ card.color = currentColor)
       \/ (top.kind = "number" /\ card.value = top.value)

Top(pile) == pile[Len(pile)]

\* a removal that fills the gap with the last card of the hand
RemoveAtSwapLast(hand, handIndex) ==
    IF handIndex + 1 = Len(hand) THEN SubSeq(hand, 1, Len(hand) - 1)
    ELSE SubSeq([hand EXCEPT ![handIndex + 1] = hand[Len(hand)]], 1, Len(hand) - 1)

\* a removal that takes the first card of the hand, whatever card was played
RemoveAtFirst(hand, handIndex) == Tail(hand)

RemoveAt(hand, handIndex) ==
    SubSeq(hand, 1, handIndex) \o SubSeq(hand, handIndex + 2, Len(hand))

\* a win check that lets a pending color choice stand
winCheckAfterEffects(newHand, player, nextPhase) ==
    IF Len(newHand) = 0 /\ nextPhase # "await_color_choice"
    THEN [winnerId |-> player.id, phase |-> "finished"]
    ELSE [winnerId |-> Undefined, phase |-> nextPhase]

\* a win check that names the winner but leaves the phase as it is
winCheckKeepsPhase(newHand, player, nextPhase) ==
    IF Len(newHand) = 0
    THEN [winnerId |-> player.id, phase |-> nextPhase]
    ELSE [winnerId |-> Undefined, phase |-> nextPhase]

\* the win check of playCard: an emptied hand wins, whatever the card did
winCheck(newHand, player, nextPhase) ==
    IF Len(newHand) = 0
    THEN [winnerId |-> player.id, phase |-> "finished"]
    ELSE [winnerId |-> Undefined, phase |-> nextPhase]

\* a turn check that only asks for a seated player
NotCurrentPlayerSeatOnly(player, tgUserId) == player = Null

\* the turn check of playCard, draw, pass and chooseColor
NotCurrentPlayer(player, tgUserId) == player = Null \/ player.tgUserId # tgUserId

\* playCard that leaves the active color as it was
playCardNKeepsColor(state, tgUserId, handIndex) ==
    IF state.phase # "in_progress" THEN Throw("bad_phase", state)
    ELSE LET player == state.players[state.currentPlayerIdx + 1] IN
    IF NotCurrentPlayer(player, tgUserId) THEN Throw("turn", state)
    ELSE IF state.pendingDraw > 0 THEN Throw("pending_draw", state)
    ELSE IF state.pendingSkip THEN Throw("pending_skip", state)
    ELSE LET hand == player.hand IN
    IF handIndex < 0 \/ handIndex >= Len(hand) THEN Throw("bad_index", state)
    ELSE LET card == hand[handIndex + 1]
             top == Top(state.discardPile)
         IN
    IF ~isPlayableN(card, state.currentColor, top) THEN Throw("illegal_move", state)
    ELSE LET newDiscard == Append(state.discardPile, card)
             newHand == RemoveAt(hand, handIndex)
             newPlayers == [state.players EXCEPT
                              ![state.currentPlayerIdx + 1] = [player EXCEPT !.hand = newHand]]
             win == winCheck(newHand, player, state.phase)
         IN  Ok([state EXCEPT
                   !.players = newPlayers,
                   !.discardPile = newDiscard,
                   !.pendingDraw = 0,
                   !.pendingSkip = FALSE,
                   !.phase = win.phase,
                   !.winnerId = win.winnerId])

playCardN(state, tgUserId, handIndex) ==
    IF state.phase # "in_progress" THEN Throw("bad_phase", state)
    ELSE LET player == state.players[state.currentPlayerIdx + 1] IN
    IF NotCurrentPlayer(player, tgUserId) THEN Throw("turn", state)
    ELSE IF state.pendingDraw > 0 THEN Throw("pending_draw", state)
    ELSE IF state.pendingSkip THEN Throw("pending_skip", state)
    ELSE LET hand == player.hand IN
    IF handIndex < 0 \/ handIndex >= Len(hand) THEN Throw("bad_index", state)
    ELSE LET card == hand[handIndex + 1]
             top == Top(state.discardPile)
         IN
    IF ~isPlayableN(card, state.currentColor, top) THEN Throw("illegal_move", state)
    ELSE LET newDiscard == Append(state.discardPile, card)
             newHand == RemoveAt(hand, handIndex)
             newPlayers == [state.players EXCEPT
                              ![state.currentPlayerIdx + 1] = [player EXCEPT !.hand = newHand]]
             win == winCheck(newHand, player, state.phase)
         IN  Ok([state EXCEPT
                   !.players = newPlayers,
                   !.discardPile = newDiscard,
                   !.currentColor = card.color,
                   !.pendingDraw = 0,
                   !.pendingSkip = FALSE,
                   !.phase = win.phase,
                   !.winnerId = win.winnerId])

\* the draw loop shared by both engines: numToDraw calls of drawOne
RECURSIVE drawLoop(_, _, _, _, _)
drawLoop(n, drawPile, discard, newCards, seed) ==
    IF n = 0
    THEN [ok |-> TRUE, drawPile |-> drawPile, discard |-> discard, newCards |-> newCards]
    ELSE LET res == drawOne(drawPile, discard, seed)
         IN  IF ~res.ok
             THEN [ok |-> FALSE, drawPile |-> drawPile, discard |-> discard,
                   newCards |-> newCards]
             ELSE drawLoop(n - 1, res.newDraw, res.newDiscard,
                           Append(newCards, res.card), seed)

Max(a, b) == IF a >= b THEN a ELSE b

\* a playable-card scan that looks at the first card only
HasPlayableFirstOnly(state, player) ==
    /\ Len(player.hand) > 0
    /\ isPlayableN(player.hand[1], state.currentColor, Top(state.discardPile))

\* a playable-card scan that takes any card in hand for a playable one
HasPlayableAnyCard(state, player) == Len(player.hand) > 0

HasPlayableN(state, player) ==
    \E k \in 1 .. Len(player.hand) :
        isPlayableN(player.hand[k], state.currentColor, Top(state.discardPile))

\* draw without the must-play-first guard
drawNNoPlayableGuard(state, tgUserId, seed) ==
    IF state.phase # "in_progress" THEN Throw("bad_phase", state)
    ELSE LET player == state.players[state.currentPlayerIdx + 1] IN
    IF NotCurrentPlayer(player, tgUserId) THEN Throw("turn", state)
    ELSE IF state.hasDrawnThisTurn THEN Throw("already_drawn", state)
    ELSE LET numToDraw == Max(1, state.pendingDraw)
             res == drawLoop(numToDraw, state.drawPile, state.discardPile, <<>>, seed)
         IN
    IF ~res.ok THEN Throw("no_cards", state)
    ELSE LET newPlayers == [state.players EXCEPT
                              ![state.currentPlayerIdx + 1] =
                                  [player EXCEPT !.hand = player.hand \o res.newCards]]
         IN  Ok([state EXCEPT
                   !.players = newPlayers,
                   !.drawPile = res.drawPile,
                   !.discardPile = res.discard,
                   !.pendingDraw = 0,
                   !.pendingSkip = state.pendingSkip,
                   !.hasDrawnThisTurn = TRUE])

drawN(state, tgUserId, seed) ==
    IF state.phase # "in_progress" THEN Throw("bad_phase", state)
    ELSE LET player == state.players[state.currentPlayerIdx + 1] IN
    IF NotCurrentPlayer(player, tgUserId) THEN Throw("turn", state)
    ELSE IF state.hasDrawnThisTurn THEN Throw("already_drawn", state)
    ELSE IF HasPlayableN(state, player) THEN Throw("has_playable", state)
    ELSE LET numToDraw == Max(1, state.pendingDraw)
             res == drawLoop(numToDraw, state.drawPile, state.discardPile, <<>>, seed)
         IN
    IF ~res.ok THEN Throw("no_cards", state)
    ELSE LET newPlayers == [state.players EXCEPT
                              ![state.currentPlayerIdx + 1] =
                                  [player EXCEPT !.hand = player.hand \o res.newCards]]
         IN  Ok([state EXCEPT
                   !.players = newPlayers,
                   !.drawPile = res.drawPile,
                   !.discardPile = res.discard,
                   !.pendingDraw = 0,
                   !.pendingSkip = state.pendingSkip,
                   !.hasDrawnThisTurn = TRUE])

\* the turn advance shared by pass and endTurn
Other(idx) == IF idx = 0 THEN 1 ELSE 0
\* a turn advance with the pending-skip test inverted
NextIdxInverted(state) ==
    IF state.pendingSkip THEN Other(state.currentPlayerIdx)
    ELSE Other(Other(state.currentPlayerIdx))

NextIdx(state) ==
    IF state.pendingSkip THEN Other(Other(state.currentPlayerIdx))
    ELSE Other(state.currentPlayerIdx)

\* pass without the must-draw-first guard
passNNoDrawGuard(state, tgUserId) ==
    IF state.phase # "in_progress" THEN Throw("bad_phase", state)
    ELSE LET player == state.players[state.currentPlayerIdx + 1] IN
    IF NotCurrentPlayer(player, tgUserId) THEN Throw("turn", state)
    ELSE Ok([state EXCEPT
               !.currentPlayerIdx = NextIdx(state),
               !.pendingSkip = FALSE,
               !.hasDrawnThisTurn = FALSE])

passN(state, tgUserId) ==
    IF state.phase # "in_progress" THEN Throw("bad_phase", state)
    ELSE LET player == state.players[state.currentPlayerIdx + 1] IN
    IF NotCurrentPlayer(player, tgUserId) THEN Throw("turn", state)
    ELSE IF ~state.hasDrawnThisTurn THEN Throw("must_draw_first", state)
    ELSE Ok([state EXCEPT
               !.currentPlayerIdx = NextIdx(state),
               !.pendingSkip = FALSE,
               !.hasDrawnThisTurn = FALSE])

\* an end-turn step that forgets to reset hasDrawnThisTurn
endTurnNKeepsDrawn(state) ==
    [state EXCEPT
        !.currentPlayerIdx = NextIdx(state),
        !.pendingSkip = FALSE]

\* an end-turn step that hands the turn over with a skip pending
endTurnNSetsSkip(state) ==
    [state EXCEPT
        !.currentPlayerIdx = NextIdx(state),
        !.pendingSkip = TRUE,
        !.hasDrawnThisTurn = FALSE]

endTurnN(state) ==
    [state EXCEPT
        !.currentPlayerIdx = NextIdx(state),
        !.pendingSkip = FALSE,
        !.hasDrawnThisTurn = FALSE]

reduceN(state, action, seed) ==
    CASE action.type = "createGame" -> Ok(createEmptyGame(action.gameId))
      [] action.type = "joinGame" -> joinGame(state, action.tgUserId)
      [] action.type = "startGame" -> startGameN(state, seed)
      [] action.type = "playCard" ->
            LET afterPlay == playCardN(state, action.tgUserId, action.handIndex)
            IN  IF afterPlay.err # "none" THEN afterPlay
                ELSE IF afterPlay.state.phase = "finished" THEN afterPlay
                ELSE Ok(endTurnN(afterPlay.state))
      [] action.type = "draw" -> drawN(state, action.tgUserId, seed)
      [] action.type = "pass" -> passN(state, action.tgUserId)
      [] OTHER -> Ok(state)

(***************************************************************************)
(* Action/wild engine                                                      *)
(***************************************************************************)
\* an opening flip that takes the first card flipped as the opener, Wild or
\* not
flipOpenerAcceptsWild(draw, discard, seed) ==
    LET r == drawOne(draw, discard, seed)
    IN  IF ~r.ok THEN [ok |-> FALSE, draw |-> draw, discard |-> discard]
        ELSE [ok |-> TRUE, draw |-> r.newDraw, discard |-> Append(discard, r.card)]

\* the opening flip: Wilds are pushed onto the discard pile until a
\* non-Wild card is drawn
RECURSIVE flipOpener(_, _, _)
flipOpener(draw, discard, seed) ==
    LET r == drawOne(draw, discard, seed)
    IN  IF ~r.ok THEN [ok |-> FALSE, draw |-> draw, discard |-> discard]
        ELSE IF r.card.kind = "wild"
        THEN flipOpener(r.newDraw, Append(discard, r.card), seed)
        ELSE [ok |-> TRUE, draw |-> r.newDraw, discard |-> Append(discard, r.card)]

startGameA(state, seed) ==
    IF state.phase # "ready_to_start" THEN Throw("bad_phase", state)
    ELSE IF state.players[1] = Null \/ state.players[2] = Null
    THEN Throw("need_players", state)
    ELSE LET dealt == deal(0, createDeckAction(seed), <<<<>>, <<>>>>, seed)
             flip == flipOpener(dealt.draw, <<>>, seed)
         IN  IF ~dealt.ok \/ ~flip.ok THEN Throw("no_cards", state)
             ELSE LET top == Top(flip.discard)
                      players == [i \in 1 .. 2 |->
                                    [state.players[i] EXCEPT !.hand = dealt.hands[i]]]
                  IN  Ok([state EXCEPT
                            !.phase = "in_progress",
                            !.players = players,
                            !.drawPile = flip.draw,
                            !.discardPile = flip.discard,
                            !.currentColor = IF top.kind \in {"number", "action"}
                                             THEN top.color ELSE NoColor,
                            !.currentPlayerIdx = 0,
                            !.pendingDraw = 0,
                            !.pendingSkip = FALSE,
                            !.winnerId = Undefined])

isPlayableA(card, currentColor, top) ==
    IF card.kind = "wild" THEN TRUE
    ELSE IF card.kind \in {"number", "action"} /\ currentColor # NoColor
            /\ card.color = currentColor THEN TRUE
    ELSE IF card.kind = "number" /\ top.kind = "number"
    THEN card.value = top.value \/ card.color = top.color
    ELSE IF card.kind = "action" /\ top.kind = "action"
    THEN card.action = top.action \/ card.color = top.color
    ELSE FALSE

playCardA(state, tgUserId, handIndex) ==
    IF state.phase # "in_progress" THEN Throw("bad_phase", state)
    ELSE LET player == state.players[state.currentPlayerIdx + 1] IN
    IF NotCurrentPlayer(player, tgUserId) THEN Throw("turn", state)
    ELSE IF state.pendingDraw > 0 THEN Throw("pending_draw", state)
    ELSE IF state.pendingSkip THEN Throw("pending_skip", state)
    ELSE LET hand == player.hand IN
    IF handIndex < 0 \/ handIndex >= Len(hand) THEN Throw("bad_index", state)
    ELSE LET card == hand[handIndex + 1]
             top == Top(state.discardPile)
         IN
    IF ~isPlayableA(card, state.currentColor, top) THEN Throw("illegal_move", state)
    ELSE LET nextPendingDraw ==
                 IF card.kind = "action" /\ card.action = "draw2" THEN 2 ELSE 0
             nextPendingSkip ==
                 card.kind = "action" /\ card.action \in {"draw2", "skip", "reverse"}
             nextPhase == IF card.kind = "wild" THEN "await_color_choice" ELSE state.phase
             nextColor == IF card.kind = "wild" THEN NoColor ELSE card.color
             newDiscard == Append(state.discardPile, card)
             newHand == RemoveAt(hand, handIndex)
             newPlayers == [state.players EXCEPT
                              ![state.currentPlayerIdx + 1] = [player EXCEPT !.hand = newHand]]
             win == winCheck(newHand, player, nextPhase)
         IN  Ok([state EXCEPT
                   !.players = newPlayers,
                   !.discardPile = newDiscard,
                   !.currentColor = nextColor,
                   !.pendingDraw = nextPendingDraw,
                   !.pendingSkip = nextPendingSkip,
                   !.phase = win.phase,
                   !.winnerId = win.winnerId])

\* chooseColor without the turn check
chooseColorAnyUser(state, tgUserId, color) ==
    IF state.phase # "await_color_choice" THEN Throw("bad_phase", state)
    ELSE Ok([state EXCEPT !.currentColor = color, !.phase = "in_progress"])

chooseColor(state, tgUserId, color) ==
    IF state.phase # "await_color_choice" THEN Throw("bad_phase", state)
    ELSE LET player == state.players[state.currentPlayerIdx + 1] IN
    IF NotCurrentPlayer(player, tgUserId) THEN Throw("turn", state)
    ELSE Ok([state EXCEPT !.currentColor = color, !.phase = "in_progress"])

\* draw that takes a single card whatever penalty is pending
drawAIgnoresPenalty(state, tgUserId, seed) ==
    IF state.phase # "in_progress" THEN Throw("bad_phase", state)
    ELSE LET player == state.players[state.currentPlayerIdx + 1] IN
    IF NotCurrentPlayer(player, tgUserId) THEN Throw("turn", state)
    ELSE LET res == drawLoop(1, state.drawPile, state.discardPile, <<>>, seed)
         IN
    IF ~res.ok THEN Throw("no_cards", state)
    ELSE LET newPlayers == [state.players EXCEPT
                              ![state.currentPlayerIdx + 1] =
                                  [player EXCEPT !.hand = player.hand \o res.newCards]]
         IN  Ok([state EXCEPT
                   !.players = newPlayers,
                   !.drawPile = res.drawPile,
                   !.discardPile = res.discard,
                   !.pendingDraw = 0,
                   !.pendingSkip = state.pendingSkip])

drawA(state, tgUserId, seed) ==
    IF state.phase # "in_progress" THEN Throw("bad_phase", state)
    ELSE LET player == state.players[state.currentPlayerIdx + 1] IN
    IF NotCurrentPlayer(player, tgUserId) THEN Throw("turn", state)
    ELSE LET numToDraw == Max(1, state.pendingDraw)
             res == drawLoop(numToDraw, state.drawPile, state.discardPile, <<>>, seed)
         IN
    IF ~res.ok THEN Throw("no_cards", state)
    ELSE LET newPlayers == [state.players EXCEPT
                              ![state.currentPlayerIdx + 1] =
                                  [player EXCEPT !.hand = player.hand \o res.newCards]]
         IN  Ok([state EXCEPT
                   !.players = newPlayers,
                   !.drawPile = res.drawPile,
                   !.discardPile = res.discard,
                   !.pendingDraw = 0,
                   !.pendingSkip = state.pendingSkip])

\* pass without the phase check
passANoPhaseCheck(state, tgUserId) ==
    LET player == state.players[state.currentPlayerIdx + 1] IN
    IF NotCurrentPlayer(player, tgUserId) THEN Throw("turn", state)
    ELSE IF state.pendingDraw > 0 THEN Throw("pending_draw", state)
    ELSE Ok([state EXCEPT
               !.currentPlayerIdx = NextIdx(state),
               !.pendingSkip = FALSE])

\* pass that moves the turn pointer of the stored state in place before it
\* validates the pending draw
passAAdvancesFirst(state, tgUserId) ==
    IF state.phase # "in_progress" THEN Throw("bad_phase", state)
    ELSE LET player == state.players[state.currentPlayerIdx + 1]
             moved == [state EXCEPT !.currentPlayerIdx = NextIdx(state)]
         IN
    IF NotCurrentPlayer(player, tgUserId) THEN Throw("turn", state)
    ELSE IF state.pendingDraw > 0 THEN Throw("pending_draw", moved)
    ELSE Ok([moved EXCEPT !.pendingSkip = FALSE])

passA(state, tgUserId) ==
    IF state.phase # "in_progress" THEN Throw("bad_phase", state)
    ELSE LET player == state.players[state.currentPlayerIdx + 1] IN
    IF NotCurrentPlayer(player, tgUserId) THEN Throw("turn", state)
    ELSE IF state.pendingDraw > 0 THEN Throw("pending_draw", state)
    ELSE Ok([state EXCEPT
               !.currentPlayerIdx = NextIdx(state),
               !.pendingSkip = FALSE])

\* an end-turn step that resolves the skip but leaves the flag set
endTurnAKeepsSkip(state) ==
    [state EXCEPT !.currentPlayerIdx = NextIdx(state)]

endTurnA(state) ==
    [state EXCEPT
        !.currentPlayerIdx = NextIdx(state),
        !.pendingSkip = FALSE]

reduceA(state, action, seed) ==
    CASE action.type = "createGame" -> Ok(createEmptyGame(action.gameId))
      [] action.type = "joinGame" -> joinGame(state, action.tgUserId)
      [] action.type = "startGame" -> startGameA(state, seed)
      [] action.type = "playCard" ->
            LET afterPlay == playCardA(state, action.tgUserId, action.handIndex)
            IN  IF afterPlay.err # "none" THEN afterPlay
                ELSE IF afterPlay.state.phase \in {"await_color_choice", "finished"}
                THEN afterPlay
                ELSE Ok(endTurnA(afterPlay.state))
      [] action.type = "chooseColor" ->
            LET after == chooseColor(state, action.tgUserId, action.color)
            IN  IF after.err # "none" THEN after ELSE Ok(endTurnA(after.state))
      [] action.type = "draw" -> drawA(state, action.tgUserId, seed)
      [] action.type = "pass" -> passA(state, action.tgUserId)
      [] OTHER -> Ok(state)

reduce(state, action, seed) ==
    IF variant = "number" THEN reduceN(state, action, seed)
    ELSE reduceA(state, action, seed)

(***************************************************************************)
(* Session layer: the room registry and apply                              *)
(***************************************************************************)
Call(type, room, err, refill) ==
    [type |-> type, room |-> room, err |-> err, refill |-> refill]

EngineActionOf(type, gameId, tgUserId, handIndex, color) ==
    [type |-> type, gameId |-> gameId, tgUserId |-> tgUserId,
     handIndex |-> handIndex, color |-> color]

\* a registry write that stores the state under every id in use
MapSetAll(m, id, x) == [r \in (DOMAIN m) \cup {id} |-> x]

MapSet(m, id, x) == [r \in (DOMAIN m) \cup {id} |-> IF r = id THEN x ELSE m[r]]
MapDelete(m, id) == [r \in (DOMAIN m) \ {id} |-> m[r]]

\* updateRoom that starts from an empty game when the id is not registered
updateRoomCreatesMissing(id, action, seed) ==
    LET s == IF id \in DOMAIN rooms THEN rooms[id] ELSE createEmptyGame(id)
        res == reduce(s, action, seed)
    IN  IF res.err = "none"
        THEN [err |-> res.err, rooms |-> MapSet(rooms, id, res.state)]
        ELSE [err |-> res.err, rooms |-> rooms]

\* updateRoom(id, s => reduce(s, action)): the outcome code and the registry
\* after the call.  The updater is handed the very object the map holds.  When
\* it returns, rooms.set stores its result; when it throws, rooms.set is not
\* reached and the map still holds that object, in whatever condition the
\* throwing call left it (the state a Throw carries).
updateRoom(id, action, seed) ==
    IF id \notin DOMAIN rooms
    THEN [err |-> "room_not_found", rooms |-> rooms]
    ELSE LET res == reduce(rooms[id], action, seed)
         IN  [err |-> res.err, rooms |-> MapSet(rooms, id, res.state)]

\* whether a draw on this state finds the draw pile too short and refills it
\* from the discard pile
Refills(state) == Len(state.drawPile) < Max(1, state.pendingDraw)

\* the calls that move a running game on (chooseColor is an unknown tag for
\* the number-only reducer)
MoveTypes ==
    IF variant = "number" THEN {"playCard", "draw", "pass"}
    ELSE {"playCard", "draw", "pass", "chooseColor"}

ResetTypes == {"createGame", "joinGame", "startGame"}

MaxMoves == IF variant = "number" THEN MaxMovesNumber ELSE MaxMovesAction

\* the explored games stop after MaxMoves successful moves; failing calls
\* are always explored
WithinMoves(id, type, err) ==
    IF type \in MoveTypes /\ err = "none" THEN moves[id] < MaxMoves ELSE TRUE

MovesAfter(id, type, err) ==
    IF err # "none" THEN moves
    ELSE IF type \in MoveTypes THEN [moves EXCEPT ![id] = @ + 1]
    ELSE IF type \in ResetTypes THEN [moves EXCEPT ![id] = 0]
    ELSE moves

apply(id, action, seed) ==
    LET out == updateRoom(id, action, seed)
    IN  /\ WithinMoves(id, action.type, out.err)
        /\ rooms' = out.rooms
        /\ last' = Call(action.type, id, out.err,
                        action.type = "draw" /\ out.err = "none" /\ Refills(rooms[id]))
        /\ moves' = MovesAfter(id, action.type, out.err)
        /\ UNCHANGED <<variant, handlers>>

\* hand indices a caller submits: every index of the current hand, one below
\* and one above
HandIndices(id) ==
    IF id \notin DOMAIN rooms THEN -1 .. 0
    ELSE IF rooms[id].players[rooms[id].currentPlayerIdx + 1] = Null THEN -1 .. 0
    ELSE -1 .. Len(rooms[id].players[rooms[id].currentPlayerIdx + 1].hand)

PlayColors == {AllColors[i] : i \in 1 .. NumColors}

\* createRoom with the ids the random id generator can produce: an id in use
\* is drawn again until a free one comes up
createRoomIn(ids) ==
    /\ \E id \in ids \ DOMAIN rooms :
          /\ rooms' = MapSet(rooms, id, createEmptyGame(id))
          /\ moves' = MapSet(moves, id, 0)
          /\ last' = Call("createRoom", id, "none", FALSE)
    /\ UNCHANGED <<variant, handlers>>

createRoom == createRoomIn(RoomIds)

removeRoom(id) ==
    /\ rooms' = MapDelete(rooms, id)
    /\ moves' = MapDelete(moves, id)
    /\ last' = Call("removeRoom", id, "none", FALSE)
    /\ UNCHANGED <<variant, handlers>>

ApplyCreateGame(id) ==
    apply(id, EngineActionOf("createGame", id, 0, 0, NoColor), 0)

ApplyJoinGame(id, u) ==
    apply(id, EngineActionOf("joinGame", id, u, 0, NoColor), 0)

ApplyStartGame(id, seed) ==
    apply(id, EngineActionOf("startGame", id, 0, 0, NoColor), seed)

ApplyPlayCard(id, u, i) ==
    apply(id, EngineActionOf("playCard", id, u, i, NoColor), 0)

ApplyDraw(id, u, seed) ==
    apply(id, EngineActionOf("draw", id, u, 0, NoColor), seed)

ApplyPass(id, u) ==
    apply(id, EngineActionOf("pass", id, u, 0, NoColor), 0)

ApplyChooseColor(id, u, c) ==
    apply(id, EngineActionOf("chooseColor", id, u, 0, c), 0)

\* a handler invocation that is not running
Idle == [pc |-> "idle", cmd |-> "none", room |-> "none", after |-> Null]

Init ==
    /\ variant \in Variants
    /\ rooms = [r \in {} |-> createEmptyGame(r)]
    /\ moves = [r \in {} |-> 0]
    /\ last = Call("init", "none", "none", FALSE)
    /\ handlers = [h \in HandlerIds |-> Idle]

Next ==
    \/ createRoom
    \/ \E id \in RoomIds : removeRoom(id)
    \/ \E id \in RoomIds : ApplyCreateGame(id)
    \/ \E id \in RoomIds, u \in UserIds : ApplyJoinGame(id, u)
    \/ \E id \in RoomIds, seed \in Seeds : ApplyStartGame(id, seed)
    \/ \E id \in RoomIds, u \in UserIds : \E i \in HandIndices(id) : ApplyPlayCard(id, u, i)
    \/ \E id \in RoomIds, u \in UserIds, seed \in Seeds : ApplyDraw(id, u, seed)
    \/ \E id \in RoomIds, u \in UserIds : ApplyPass(id, u)
    \/ \E id \in RoomIds, u \in UserIds, c \in PlayColors : ApplyChooseColor(id, u, c)

Spec == Init /\ [][Next]_vars

\* the number-only build alone, and the action/wild build alone
InitN == Init /\ variant = "number"
InitA == Init /\ variant = "action"
SpecN == InitN /\ [][Next]_vars
SpecA == InitA /\ [][Next]_vars

(***************************************************************************)
(* Games of the action/wild build in which both players only draw and      *)
(* pass.  draw has no guard but phase and turn there, so a player may draw *)
(* the whole pile; these games are explored up to MaxMovesHoard successful *)
(* moves.                                                                  *)
(***************************************************************************)
applyHoard(id, action, seed) ==
    LET out == updateRoom(id, action, seed)
    IN  /\ out.err = "none" => moves[id] < MaxMovesHoard
        /\ rooms' = out.rooms
        /\ last' = Call(action.type, id, out.err,
                        action.type = "draw" /\ out.err = "none" /\ Refills(rooms[id]))
        /\ moves' = MovesAfter(id, action.type, out.err)
        /\ UNCHANGED <<variant, handlers>>

HoardDraw(id, u, seed) ==
    applyHoard(id, EngineActionOf("draw", id, u, 0, NoColor), seed)

HoardPass(id, u) ==
    applyHoard(id, EngineActionOf("pass", id, u, 0, NoColor), 0)

NextHoard ==
    \/ createRoom
    \/ \E id \in RoomIds, u \in UserIds : ApplyJoinGame(id, u)
    \/ \E id \in RoomIds, seed \in HoardSeeds : ApplyStartGame(id, seed)
    \/ \E id \in RoomIds, u \in UserIds, seed \in Seeds : HoardDraw(id, u, seed)
    \/ \E id \in RoomIds, u \in UserIds : HoardPass(id, u)

SpecHoard == InitA /\ [][NextHoard]_vars

(***************************************************************************)
(* Command handlers in flight.  A handler runs without interruption from   *)
(* its dispatch up to its first await: it parses the command, calls        *)
(* session.apply and keeps the returned state in its local `after`.  It    *)
(* is then suspended in its awaited replies, which render `after`, and     *)
(* other handlers run meanwhile.  /new and /endgame change the registry    *)
(* before their first await in the same way.  The handlers are those of    *)
(* the number-only build; these games are explored up to MaxMovesHandlers  *)
(* successful moves, with the shuffles drawn from HandlerSeeds.            *)
(***************************************************************************)
handle(h, id, action, seed) ==
    LET out == updateRoom(id, action, seed)
    IN  /\ handlers[h].pc = "idle"
        /\ (action.type \in MoveTypes /\ out.err = "none") => moves[id] < MaxMovesHandlers
        /\ rooms' = out.rooms
        /\ last' = Call(action.type, id, out.err,
                        action.type = "draw" /\ out.err = "none" /\ Refills(rooms[id]))
        /\ moves' = MovesAfter(id, action.type, out.err)
        /\ handlers' = [handlers EXCEPT ![h] =
                           [pc |-> "replying", cmd |-> action.type, room |-> id,
                            after |-> IF out.err = "none" THEN out.rooms[id] ELSE Null]]
        /\ UNCHANGED variant

\* a handler that stores the state it holds once its replies have been sent
replyStoresAfter(h) ==
    /\ handlers[h].pc = "replying"
    /\ handlers' = [handlers EXCEPT ![h] = Idle]
    /\ rooms' = IF handlers[h].after # Null /\ handlers[h].room \in DOMAIN rooms
                THEN MapSet(rooms, handlers[h].room, handlers[h].after)
                ELSE rooms
    /\ UNCHANGED <<variant, last, moves>>

\* the awaited replies of a handler have been sent and the handler returns
reply(h) ==
    /\ handlers[h].pc = "replying"
    /\ handlers' = [handlers EXCEPT ![h] = Idle]
    /\ rooms' = rooms
    /\ UNCHANGED <<variant, last, moves>>

HandleJoin(h, id, u) ==
    handle(h, id, EngineActionOf("joinGame", id, u, 0, NoColor), 0)

HandleStartGame(h, id, seed) ==
    handle(h, id, EngineActionOf("startGame", id, 0, 0, NoColor), seed)

HandlePlay(h, id, u, i) ==
    handle(h, id, EngineActionOf("playCard", id, u, i, NoColor), 0)

HandleDraw(h, id, u, seed) ==
    handle(h, id, EngineActionOf("draw", id, u, 0, NoColor), seed)

HandlePass(h, id, u) ==
    handle(h, id, EngineActionOf("pass", id, u, 0, NoColor), 0)

\* /endgame: a room that is found is removed at once; the handler keeps the
\* state it read and is then suspended in its notices to the players
HandleEndgame(h, id) ==
    /\ handlers[h].pc = "idle"
    /\ IF id \in DOMAIN rooms
       THEN /\ rooms' = MapDelete(rooms, id)
            /\ moves' = MapDelete(moves, id)
            /\ last' = Call("removeRoom", id, "none", FALSE)
            /\ handlers' = [handlers EXCEPT ![h] =
                               [pc |-> "replying", cmd |-> "endgame", room |-> id,
                                after |-> rooms[id]]]
       ELSE /\ last' = Call("endgame", id, "room_not_found", FALSE)
            /\ handlers' = [handlers EXCEPT ![h] =
                               [pc |-> "replying", cmd |-> "endgame", room |-> id,
                                after |-> Null]]
            /\ UNCHANGED <<rooms, moves>>
    /\ UNCHANGED variant

NextHandlers ==
    \/ createRoom
    \/ \E h \in HandlerIds, id \in RoomIds : HandleEndgame(h, id)
    \/ \E h \in HandlerIds : reply(h)
    \/ \E h \in HandlerIds, id \in RoomIds, u \in UserIds : HandleJoin(h, id, u)
    \/ \E h \in HandlerIds, id \in RoomIds, seed \in HandlerSeeds : HandleStartGame(h, id, seed)
    \/ \E h \in HandlerIds, id \in RoomIds, u \in UserIds :
          \E i \in HandIndices(id) : HandlePlay(h, id, u, i)
    \/ \E h \in HandlerIds, id \in RoomIds, u \in UserIds, seed \in HandlerSeeds :
          HandleDraw(h, id, u, seed)
    \/ \E h \in HandlerIds, id \in RoomIds, u \in UserIds : HandlePass(h, id, u)

SpecHandlers == InitN /\ [][NextHandlers]_vars

(***************************************************************************)
(* Two rooms side by side (action/wild build): rooms are created and       *)
(* removed and every engine action is applied to either id, registered or  *)
(* not.                                                                    *)
(* Each room's game is explored up to MaxMovesRooms successful moves.      *)
(***************************************************************************)
applyRooms(id, action, seed) ==
    LET out == updateRoom(id, action, seed)
    IN  /\ (action.type \in MoveTypes /\ out.err = "none") => moves[id] < MaxMovesRooms
        /\ rooms' = out.rooms
        /\ last' = Call(action.type, id, out.err,
                        action.type = "draw" /\ out.err = "none" /\ Refills(rooms[id]))
        /\ moves' = MovesAfter(id, action.type, out.err)
        /\ UNCHANGED <<variant, handlers>>

\* the engine actions applied to a room id: those that shuffle and those
\* that do not
ShuffleCalls(id) ==
    {EngineActionOf("startGame", id, 0, 0, NoColor)}
    \cup {EngineActionOf("draw", id, u, 0, NoColor) : u \in UserIds}

SessionCalls(id) ==
    {EngineActionOf("createGame", id, 0, 0, NoColor)}
    \cup {EngineActionOf(t, id, u, 0, NoColor) : t \in {"joinGame", "pass"}, u \in UserIds}
    \cup {EngineActionOf("playCard", id, u, i, NoColor) :
             u \in UserIds, i \in HandIndices(id)}
    \cup {EngineActionOf("chooseColor", id, u, 0, c) : u \in UserIds, c \in PlayColors}

NextRooms ==
    \/ createRoomIn(TwoRoomIds)
    \/ \E id \in TwoRoomIds : removeRoom(id)
    \/ \E id \in TwoRoomIds : \E a \in SessionCalls(id) : applyRooms(id, a, 0)
    \/ \E id \in TwoRoomIds, seed \in Seeds :
          \E a \in ShuffleCalls(id) : applyRooms(id, a, seed)

SpecRooms == InitA /\ [][NextRooms]_vars

(***************************************************************************)
(* Games that run the draw pile down: both players draw and pass, and a    *)
(* card is played once the draw pile is down to its last card, so that a   *)
(* Draw2 penalty meets a draw pile shorter than the penalty.  These games  *)
(* are explored in both builds up to MaxMovesLastCard successful moves.    *)
(***************************************************************************)
applyLastCard(id, action, seed) ==
    LET out == updateRoom(id, action, seed)
    IN  /\ out.err = "none" => moves[id] < MaxMovesLastCard
        /\ rooms' = out.rooms
        /\ last' = Call(action.type, id, out.err,
                        action.type = "draw" /\ out.err = "none" /\ Refills(rooms[id]))
        /\ moves' = MovesAfter(id, action.type, out.err)
        /\ UNCHANGED <<variant, handlers>>

LastCardDraw(id, u, seed) ==
    applyLastCard(id, EngineActionOf("draw", id, u, 0, NoColor), seed)

LastCardPass(id, u) ==
    applyLastCard(id, EngineActionOf("pass", id, u, 0, NoColor), 0)

LastCardPlay(id, u, i) ==
    /\ id \in DOMAIN rooms
    /\ Len(rooms[id].drawPile) <= 1
    /\ applyLastCard(id, EngineActionOf("playCard", id, u, i, NoColor), 0)

NextLastCard ==
    \/ createRoom
    \/ \E id \in RoomIds, u \in UserIds : ApplyJoinGame(id, u)
    \/ \E id \in RoomIds, seed \in Seeds : ApplyStartGame(id, seed)
    \/ \E id \in RoomIds, u \in UserIds, seed \in Seeds : LastCardDraw(id, u, seed)
    \/ \E id \in RoomIds, u \in UserIds : LastCardPass(id, u)
    \/ \E id \in RoomIds, u \in UserIds : \E i \in HandIndices(id) : LastCardPlay(id, u, i)

SpecLastCard == Init /\ [][NextLastCard]_vars

(***************************************************************************)
(* Vocabulary of the properties                                            *)
(***************************************************************************)
StartedPhases == {"in_progress", "await_color_choice", "finished"}

HandOf(state, i) == IF state.players[i] = Null THEN <<>> ELSE state.players[i].hand

CardCount(state) ==
    Len(state.drawPile) + Len(state.discardPile)
    + Len(HandOf(state, 1)) + Len(HandOf(state, 2))

Current(state) == state.players[state.currentPlayerIdx + 1]

\* sizes of the decks the two builds construct, and of the decks of the
\* explored games
SrcNumberDeckSize == Len(numberDeckCards(SrcNumColors, SrcMaxValue))
SrcActionDeckSize == Len(actionDeckCards(SrcNumColors, SrcMaxValue, SrcNumWilds))
DeckSize ==
    IF variant = "number" THEN Len(numberDeckCards(NumColors, MaxValue))
    ELSE Len(actionDeckCards(NumColors, MaxValue, NumWilds))

\* callers: the users that may be seated and one that never joins
Callers == UserIds \cup {0}

IndicesOf(state) ==
    IF Current(state) = Null THEN -1 .. 0 ELSE -1 .. Len(Current(state).hand)

PlayCalls(state) ==
    {EngineActionOf("playCard", state.id, u, i, NoColor) : u \in Callers, i \in IndicesOf(state)}
DrawCalls(state) == {EngineActionOf("draw", state.id, u, 0, NoColor) : u \in Callers}
PassCalls(state) == {EngineActionOf("pass", state.id, u, 0, NoColor) : u \in Callers}
JoinCalls(state) == {EngineActionOf("joinGame", state.id, u, 0, NoColor) : u \in Callers}
StartCalls(state) == {EngineActionOf("startGame", state.id, 0, 0, NoColor)}
CreateCalls(state) == {EngineActionOf("createGame", state.id, 0, 0, NoColor)}
ColorCalls(state) ==
    {EngineActionOf("chooseColor", state.id, u, 0, c) : u \in Callers, c \in PlayColors}

\* the rule calls: every EngineAction of the running build but createGame
RuleCalls(state) ==
    JoinCalls(state) \cup StartCalls(state) \cup PlayCalls(state)
    \cup DrawCalls(state) \cup PassCalls(state)
    \cup (IF variant = "action" THEN ColorCalls(state) ELSE {})

EngineCalls(state) == RuleCalls(state) \cup CreateCalls(state)

LegalOnTop(card, state) ==
    \/ card.color = state.currentColor
    \/ card.color = Top(state.discardPile).color
    \/ card.value = Top(state.discardPile).value

C2_LegalitySoundness ==
    \A id \in DOMAIN rooms :
        LET s == rooms[id] IN
        (variant = "number" /\ s.phase = "in_progress"
            /\ s.pendingDraw = 0 /\ ~s.pendingSkip) =>
        \A i \in 0 .. (Len(Current(s).hand) - 1) :
            LET r == reduce(s, EngineActionOf("playCard", id, Current(s).tgUserId, i, NoColor), 0)
            IN  IF LegalOnTop(Current(s).hand[i + 1], s)
                THEN r.err = "none" ELSE r.err = "illegal_move"

\* a rejected play while the same hand holds a card that is legal only by
\* its value
C2_Witness ==
    \E id \in DOMAIN rooms :
        LET s == rooms[id] IN
        /\ variant = "number" /\ s.phase = "in_progress"
        /\ last.type = "playCard" /\ last.err = "illegal_move"
        /\ \E k \in 1 .. Len(Current(s).hand) :
              /\ Current(s).hand[k].color # s.currentColor
              /\ Current(s).hand[k].value = Top(s.discardPile).value

(***************************************************************************)
(* C3  Win detection.  In both builds, a successful playCard through the   *)
(* reducer that leaves the acting player's hand empty yields phase         *)
(* finished and winnerId = that player's id, whatever the played card is   *)
(* (a Wild, Skip or Draw2 included), and the turn is not advanced.         *)
(***************************************************************************)
C3_WinDetection ==
    \A id \in DOMAIN rooms :
        LET s == rooms[id] IN
        \A a \in PlayCalls(s) :
            LET r == reduce(s, a, 0) IN
            (r.err = "none" /\ Len(HandOf(r.state, s.currentPlayerIdx + 1)) = 0) =>
                /\ r.state.phase = "finished"
                /\ r.state.winnerId = SlotName(s.currentPlayerIdx)
                /\ r.state.winnerId = Current(s).id
                /\ r.state.currentPlayerIdx = s.currentPlayerIdx

\* a game won by playing a Wild as the last card
C3_Witness ==
    \E id \in DOMAIN rooms :
        LET s == rooms[id] IN
        /\ last.type = "playCard" /\ last.err = "none"
        /\ s.phase = "finished"
        /\ Top(s.discardPile).kind = "wild"
        /\ Len(Current(s).hand) = 0
        /\ s.winnerId = Current(s).id

C5_NoChangeOnFailure ==
    \A id \in DOMAIN rooms :
        \A a \in EngineCalls(rooms[id]), seed \in Seeds :
            LET res == reduce(rooms[id], a, seed)
                out == updateRoom(id, a, seed)
            IN  out.err # "none" =>
                    /\ res.err = out.err
                    /\ res.state = rooms[id]
                    /\ out.rooms = rooms

\* a pass rejected while a draw penalty is pending, the penalty still stored
C5_Witness ==
    \E id \in DOMAIN rooms :
        /\ last.type = "pass" /\ last.err = "pending_draw"
        /\ rooms[id].phase = "in_progress"
        /\ rooms[id].pendingDraw = 2

(***************************************************************************)
(* C6  Turn alternation (number-only build).  Every successful pass and    *)
(* every successful non-winning playCard through the reducer hands the     *)
(* turn to the other player; a draw keeps it; startGame gives it to player *)
(* 0.  So the turn index alternates 0,1,0,1,... and nobody plays twice in  *)
(* one turn.                                                               *)
(***************************************************************************)
C6_TurnAlternation ==
    \A id \in DOMAIN rooms :
        LET s == rooms[id] IN
        variant = "number" =>
        /\ \A a \in StartCalls(s), seed \in Seeds :
              LET r == reduce(s, a, seed)
              IN  r.err = "none" => r.state.currentPlayerIdx = 0
        /\ s.phase = "in_progress" =>
              /\ \A a \in PassCalls(s) \cup PlayCalls(s) :
                    LET r == reduce(s, a, 0)
                    IN  (r.err = "none" /\ r.state.phase # "finished") =>
                            /\ r.state.phase = "in_progress"
                            /\ r.state.currentPlayerIdx = Other(s.currentPlayerIdx)
              /\ \A a \in DrawCalls(s), seed \in Seeds :
                    LET r == reduce(s, a, seed)
                    IN  r.err = "none" => r.state.currentPlayerIdx = s.currentPlayerIdx

\* two plays made, one by each player, and the turn is back at player 0
C6_Witness ==
    \E id \in DOMAIN rooms :
        /\ variant = "number"
        /\ rooms[id].phase = "in_progress"
        /\ last.type = "playCard" /\ last.err = "none"
        /\ moves[id] = 2
        /\ Len(rooms[id].discardPile) = 3
        /\ rooms[id].currentPlayerIdx = 0

(***************************************************************************)
(* C7  Turn enforcement.  In phase in_progress, playCard, draw and pass    *)
(* submitted by any user other than the player at currentPlayerIdx fail    *)
(* with turn and change nothing; a call that succeeds is the current       *)
(* player's.                                                               *)
(***************************************************************************)
C7_TurnEnforcement ==
    \A id \in DOMAIN rooms :
        LET s == rooms[id] IN
        s.phase = "in_progress" =>
        /\ Current(s) # Null
        /\ \A a \in PlayCalls(s) \cup DrawCalls(s) \cup PassCalls(s), seed \in Seeds :
              LET out == updateRoom(id, a, seed)
              IN  /\ a.tgUserId # Current(s).tgUserId =>
                        out.err = "turn" /\ out.rooms = rooms
                  /\ out.err = "none" => a.tgUserId = Current(s).tgUserId

\* a call of the player who is not on turn has just been rejected
C7_Witness ==
    \E id \in DOMAIN rooms :
        /\ rooms[id].phase = "in_progress"
        /\ rooms[id].players[1].tgUserId # rooms[id].players[2].tgUserId
        /\ last.type \in {"playCard", "draw", "pass"}
        /\ last.err = "turn"

(***************************************************************************)
(* C8  Must-play-first guard (number-only build).  As claimed: whenever    *)
(* the current player holds a card satisfying the legality predicate, draw *)
(* fails with has_playable and no card is drawn.                           *)
(***************************************************************************)
C8_DrawAlwaysHasPlayable ==
    \A id \in DOMAIN rooms :
        LET s == rooms[id] IN
        (variant = "number" /\ s.phase = "in_progress"
            /\ \E i \in 1 .. Len(Current(s).hand) :
                   LegalOnTop(Current(s).hand[i], s)) =>
        \A seed \in Seeds :
            LET r == reduce(s, EngineActionOf("draw", s.id, Current(s).tgUserId, 0, NoColor), seed)
            IN  r.err = "has_playable" /\ r.state = s

(***************************************************************************)
(* C8 (amended)  Whenever the current player holds a card satisfying the   *)
(* legality predicate, draw fails and no card is drawn: with has_playable  *)
(* when the player has not drawn this turn, and with already_drawn when    *)
(* the player has (the once-per-turn guard is tested first).  A draw never *)
(* succeeds while a legal play exists in the hand.                         *)
(***************************************************************************)
C8_MustPlayFirst ==
    \A id \in DOMAIN rooms :
        LET s == rooms[id] IN
        (variant = "number" /\ s.phase = "in_progress") =>
        \A seed \in Seeds :
            LET r == reduce(s, EngineActionOf("draw", s.id, Current(s).tgUserId, 0, NoColor), seed)
                playable == \E i \in 1 .. Len(Current(s).hand) :
                                LegalOnTop(Current(s).hand[i], s)
            IN  /\ playable =>
                      /\ r.err = (IF s.hasDrawnThisTurn THEN "already_drawn"
                                  ELSE "has_playable")
                      /\ r.state = s
                /\ r.err = "none" => ~playable

\* a draw has just been refused because a card of the hand other than the
\* first is playable
C8_Witness ==
    \E id \in DOMAIN rooms :
        LET s == rooms[id] IN
        /\ variant = "number" /\ s.phase = "in_progress"
        /\ last.type = "draw" /\ last.err = "has_playable"
        /\ ~s.hasDrawnThisTurn
        /\ ~LegalOnTop(Current(s).hand[1], s)
        /\ \E i \in 2 .. Len(Current(s).hand) : LegalOnTop(Current(s).hand[i], s)

(***************************************************************************)
(* C9  Once-per-turn draw (number-only build).  A draw succeeds only when  *)
(* hasDrawnThisTurn is false, sets it and keeps the turn, so a second draw *)
(* in the same turn fails with already_drawn; hasDrawnThisTurn is false    *)
(* after startGame, after every successful pass and after every            *)
(* non-winning play, that is at the start of every turn.                   *)
(***************************************************************************)
C9_OncePerTurnDraw ==
    \A id \in DOMAIN rooms :
        LET s == rooms[id] IN
        variant = "number" =>
        /\ \A a \in StartCalls(s), seed \in Seeds :
              LET r == reduce(s, a, seed)
              IN  r.err = "none" => ~r.state.hasDrawnThisTurn
        /\ s.phase = "in_progress" =>
              /\ \A a \in DrawCalls(s), seed \in Seeds :
                    LET r == reduce(s, a, seed) IN
                    /\ r.err = "none" =>
                          /\ ~s.hasDrawnThisTurn
                          /\ r.state.hasDrawnThisTurn
                          /\ r.state.currentPlayerIdx = s.currentPlayerIdx
                          /\ \A seed2 \in Seeds :
                                reduce(r.state, a, seed2).err = "already_drawn"
                    /\ (s.hasDrawnThisTurn /\ a.tgUserId = Current(s).tgUserId) =>
                          r.err = "already_drawn" /\ r.state = s
              /\ \A a \in PassCalls(s) \cup PlayCalls(s) :
                    LET r == reduce(s, a, 0) IN
                    /\ (r.err = "none" /\ r.state.phase # "finished") =>
                          ~r.state.hasDrawnThisTurn
                    /\ (r.err = "none" /\ r.state.phase = "finished") =>
                          r.state.hasDrawnThisTurn = s.hasDrawnThisTurn
        /\ (s.phase = "in_progress" /\ moves[id] = 0) => ~s.hasDrawnThisTurn

\* a second draw in the same turn has just been refused
C9_Witness ==
    \E id \in DOMAIN rooms :
        /\ variant = "number" /\ rooms[id].phase = "in_progress"
        /\ rooms[id].hasDrawnThisTurn
        /\ last.type = "draw" /\ last.err = "already_drawn"

(***************************************************************************)
(* C10  Must-draw-first guard (number-only build).  pass by the current    *)
(* player in phase in_progress succeeds if and only if hasDrawnThisTurn is *)
(* true and otherwise fails with must_draw_first; so the turn moves only   *)
(* by a play or by a pass that follows a draw.                             *)
(***************************************************************************)
C10_MustDrawFirst ==
    \A id \in DOMAIN rooms :
        LET s == rooms[id] IN
        (variant = "number" /\ s.phase = "in_progress") =>
        /\ LET r == reduce(s, EngineActionOf("pass", s.id, Current(s).tgUserId, 0, NoColor), 0)
           IN  /\ r.err = "none" <=> s.hasDrawnThisTurn
               /\ ~s.hasDrawnThisTurn => r.err = "must_draw_first" /\ r.state = s
        /\ \A a \in EngineCalls(s), seed \in Seeds :
              LET r == reduce(s, a, seed) IN
              (r.err = "none" /\ r.state.phase = "in_progress"
                  /\ r.state.currentPlayerIdx # s.currentPlayerIdx) =>
                  \/ a.type = "playCard"
                  \/ a.type = "pass" /\ s.hasDrawnThisTurn

\* a pass before the mandatory draw has just been refused
C10_Witness ==
    \E id \in DOMAIN rooms :
        /\ variant = "number" /\ rooms[id].phase = "in_progress"
        /\ ~rooms[id].hasDrawnThisTurn
        /\ last.type = "pass" /\ last.err = "must_draw_first"

(***************************************************************************)
(* C11  Draw-pile exhaustion is unreachable.  In every reachable state, a  *)
(* draw by the current player in phase in_progress who has not drawn this  *)
(* turn and holds no playable card never fails with 'No cards to draw':    *)
(* the draw pile is never empty while the discard pile holds at most one   *)
(* card.                                                                   *)
(***************************************************************************)
C11_NoExhaustion ==
    \A id \in DOMAIN rooms :
        LET s == rooms[id] IN
        (/\ s.phase = "in_progress"
         /\ s.players[1].tgUserId # s.players[2].tgUserId
         /\ ~s.hasDrawnThisTurn
         /\ ~\E i \in 1 .. Len(Current(s).hand) :
                 isPlayableA(Current(s).hand[i], s.currentColor, Top(s.discardPile))) =>
        /\ ~(Len(s.drawPile) = 0 /\ Len(s.discardPile) <= 1)
        /\ \A seed \in Seeds :
              reduce(s, EngineActionOf("draw", s.id, Current(s).tgUserId, 0, NoColor),
                     seed).err # "no_cards"

\* C11, number-only build: there the guarded draw never finds the piles
\* exhausted
C11_NumberBuildNeverExhausts ==
    \A id \in DOMAIN rooms :
        LET s == rooms[id] IN
        (variant = "number" /\ s.phase = "in_progress") =>
        \A seed \in Seeds :
            reduce(s, EngineActionOf("draw", s.id, Current(s).tgUserId, 0, NoColor),
                   seed).err # "no_cards"

\* the two sequences hold the same cards, each as often
CountIn(seq, x) == Cardinality({i \in 1 .. Len(seq) : seq[i] = x})
SameCards(a, b) ==
    /\ Len(a) = Len(b)
    /\ \A i \in 1 .. Len(a) : CountIn(a, a[i]) = CountIn(b, a[i])

(***************************************************************************)
(* C12  Reshuffle correctness.  As claimed: drawOne on an empty draw pile  *)
(* and a discard pile of N > 1 cards yields a new draw pile of size N-1    *)
(* and a discard pile holding exactly the old top card.                    *)
(***************************************************************************)
C12_NewDrawHasAllButTop ==
    \A id \in DOMAIN rooms :
        LET disc == rooms[id].discardPile
            N == Len(disc)
        IN  N > 1 =>
            \A seed \in Seeds :
                LET r == drawOne(<<>>, disc, seed)
                IN  /\ r.ok
                    /\ Len(r.newDraw) = N - 1
                    /\ r.newDiscard = <<disc[N]>>

(***************************************************************************)
(* C12 (amended)  drawOne on an empty draw pile and a discard pile of      *)
(* N > 1 cards shuffles the N-1 cards below the old top; the drawn card is *)
(* the first of them and the new draw pile holds the other N-2, so the     *)
(* drawn card and the new draw pile together are exactly the discard cards *)
(* except the old top; the new discard pile is exactly the old top card.   *)
(***************************************************************************)
C12_ReshuffleCorrect ==
    \A id \in DOMAIN rooms :
        LET disc == rooms[id].discardPile
            N == Len(disc)
        IN  /\ N > 1 =>
                \A seed \in Seeds :
                    LET r == drawOne(<<>>, disc, seed)
                    IN  /\ r.ok
                        /\ Len(r.newDraw) = N - 2
                        /\ SameCards(<<r.card>> \o r.newDraw, SubSeq(disc, 1, N - 1))
                        /\ r.newDiscard = <<disc[N]>>
            /\ (last.room = id /\ last.refill) => N = 1

\* a draw has just refilled the draw pile from three or more discards
C12_Witness ==
    \E id \in DOMAIN rooms :
        /\ last.room = id /\ last.type = "draw" /\ last.refill
        /\ Len(rooms[id].discardPile) = 1
        /\ Len(rooms[id].drawPile) >= 1

\* the cards the start sequence takes off the deck besides the Wilds flipped
\* before the opener: two hands and the opener (15 with hands of 7)
StartTaken == 2 * HandSize + 1

\* what every successful startGame leaves behind, apart from the piles' sizes
StartedFresh(st) ==
    /\ st.phase = "in_progress"
    /\ Len(st.players[1].hand) = HandSize
    /\ Len(st.players[2].hand) = HandSize
    /\ st.currentPlayerIdx = 0
    /\ st.pendingDraw = 0
    /\ ~st.pendingSkip
    /\ ~st.hasDrawnThisTurn
    /\ st.winnerId = Undefined

(***************************************************************************)
(* C13  Start postcondition.  As claimed: after any successful startGame   *)
(* each hand holds exactly the dealt 7 cards (HandSize in the explored     *)
(* games), the discard pile holds exactly 1 card, the draw pile holds      *)
(* deckSize - 15 cards (DeckSize - StartTaken), currentPlayerIdx is 0,     *)
(* pendingDraw is 0, pendingSkip and hasDrawnThisTurn are false, winnerId  *)
(* is unset and phase is in_progress.                                      *)
(***************************************************************************)
C13_StartLeavesOneDiscard ==
    \A id \in DOMAIN rooms :
        \A a \in StartCalls(rooms[id]), seed \in Seeds :
            LET r == reduce(rooms[id], a, seed)
            IN  r.err = "none" =>
                    /\ StartedFresh(r.state)
                    /\ Len(r.state.discardPile) = 1
                    /\ Len(r.state.drawPile) = DeckSize - StartTaken

(***************************************************************************)
(* C13 (amended)  After any successful startGame each hand holds exactly   *)
(* the dealt 7 cards, the discard pile holds the opener on top of the      *)
(* k >= 0 Wilds flipped before it (k = 0, so exactly 1 card, in the        *)
(* number-only build), the draw pile holds deckSize - 15 - k cards,        *)
(* currentPlayerIdx is 0, pendingDraw is 0, pendingSkip and                *)
(* hasDrawnThisTurn are false, winnerId is unset and phase is in_progress; *)
(* startGame succeeds from every ready_to_start state and from no other.   *)
(***************************************************************************)
C13_StartPostcondition ==
    \A id \in DOMAIN rooms :
        \A a \in StartCalls(rooms[id]), seed \in Seeds :
            LET r == reduce(rooms[id], a, seed)
                disc == r.state.discardPile
                k == Len(disc) - 1
            IN  /\ r.err = "none" <=> rooms[id].phase = "ready_to_start"
                /\ r.err = "none" =>
                      /\ StartedFresh(r.state)
                      /\ k >= 0
                      /\ disc[k + 1].kind # "wild"
                      /\ \A j \in 1 .. k : disc[j].kind = "wild"
                      /\ variant = "number" => k = 0
                      /\ Len(r.state.drawPile) = DeckSize - StartTaken - k
                      /\ r.state.players[1].tgUserId = rooms[id].players[1].tgUserId
                      /\ r.state.players[2].tgUserId = rooms[id].players[2].tgUserId

\* a game of the action/wild build has just started with a Wild flipped
\* before the opener
C13_Witness ==
    \E id \in DOMAIN rooms :
        /\ last.room = id /\ last.type = "startGame" /\ last.err = "none"
        /\ StartedFresh(rooms[id])
        /\ Len(rooms[id].discardPile) = 2
        /\ Len(rooms[id].drawPile) = DeckSize - StartTaken - 1

(***************************************************************************)
(* C14  The discard pile is never empty in a state with phase in_progress  *)
(* or finished, also right after a draw that reshuffled it into the draw   *)
(* pile, so the top card of the legality check always exists; and no draw  *)
(* from such a state leaves it empty.                                      *)
(***************************************************************************)
C14_DiscardNonEmpty ==
    \A id \in DOMAIN rooms :
        LET s == rooms[id] IN
        s.phase \in {"in_progress", "finished"} =>
        /\ Len(s.discardPile) >= 1
        /\ Top(s.discardPile) # Null
        /\ \A a \in DrawCalls(s), seed \in Seeds :
              Len(reduce(s, a, seed).state.discardPile) >= 1

\* right after a reshuffle the discard pile holds just its old top, whose
\* color is still the current color
C14_Witness ==
    \E id \in DOMAIN rooms :
        /\ last.room = id /\ last.refill
        /\ rooms[id].phase = "in_progress"
        /\ rooms[id].hasDrawnThisTurn
        /\ rooms[id].discardPile # <<>>
        /\ Len(rooms[id].discardPile) < 2
        /\ Top(rooms[id].discardPile).color = rooms[id].currentColor

(***************************************************************************)
(* C15  joinGame seats the joiner in the first empty slot (slot 0 before   *)
(* slot 1) with id p0 or p1 and an empty hand and touches nothing else;    *)
(* the resulting phase is ready_to_start exactly when both slots are       *)
(* filled and waiting_for_players otherwise; joinGame in phase in_progress *)
(* or finished fails with bad_phase.                                       *)
(***************************************************************************)
C15_JoinSeatsFirstEmptySlot ==
    \A id \in DOMAIN rooms :
        LET s == rooms[id] IN
        \A a \in JoinCalls(s) :
            LET r == reduce(s, a, 0)
                t == r.state
                seat == IF s.players[1] = Null THEN 1 ELSE 2
            IN  /\ s.phase \in {"in_progress", "finished"} => r.err = "bad_phase"
                /\ r.err = "none" =>
                      /\ s.phase \in {"waiting_for_players", "ready_to_start"}
                      /\ s.players[seat] = Null
                      /\ t.players[seat] =
                            [id |-> IF seat = 1 THEN "p0" ELSE "p1",
                             tgUserId |-> a.tgUserId, hand |-> <<>>]
                      /\ t.players[3 - seat] = s.players[3 - seat]
                      /\ t.phase = "ready_to_start"
                            <=> (t.players[1] # Null /\ t.players[2] # Null)
                      /\ t.phase \in {"ready_to_start", "waiting_for_players"}
                      /\ t = [s EXCEPT !.players = t.players, !.phase = t.phase]
                /\ (s.phase = "waiting_for_players"
                        /\ (s.players[1] = Null \/ s.players[2] = Null)) =>
                      r.err = "none"

\* the first joiner sits in slot 0 and waits; nobody is in slot 1 yet
C15_Witness ==
    \E id \in DOMAIN rooms :
        /\ last.room = id /\ last.type = "joinGame" /\ last.err = "none"
        /\ rooms[id].phase = "waiting_for_players"
        /\ rooms[id].players[1] # Null
        /\ rooms[id].players[1].id = "p0"
        /\ rooms[id].players[2] = Null

(***************************************************************************)
(* C16  As claimed: a joinGame on a room whose two slots are both filled   *)
(* (phase ready_to_start) fails with the error code room_full and leaves   *)
(* both players and the phase unchanged.                                   *)
(***************************************************************************)
C16_FullRoomRejectsWithRoomFull ==
    \A id \in DOMAIN rooms :
        LET s == rooms[id] IN
        (s.phase = "ready_to_start" /\ s.players[1] # Null /\ s.players[2] # Null) =>
        \A a \in JoinCalls(s) :
            LET out == updateRoom(id, a, 0)
            IN  out.err = "room_full" /\ out.rooms = rooms

(***************************************************************************)
(* C16 (amended)  A joinGame on a room whose two slots are both filled     *)
(* (phase ready_to_start) fails with the error code full and leaves both   *)
(* players and the phase unchanged.                                        *)
(***************************************************************************)
C16_FullRoomRejects ==
    \A id \in DOMAIN rooms :
        LET s == rooms[id] IN
        /\ s.phase = "ready_to_start" => (s.players[1] # Null /\ s.players[2] # Null)
        /\ (s.phase = "ready_to_start" /\ s.players[1] # Null /\ s.players[2] # Null) =>
              \A a \in JoinCalls(s) :
                  LET out == updateRoom(id, a, 0)
                  IN  /\ out.err = "full"
                      /\ out.rooms[id].players = s.players
                      /\ out.rooms[id].phase = s.phase
                      /\ out.rooms = rooms

\* a third join has just been turned away from a full room
C16_Witness ==
    \E id \in DOMAIN rooms :
        /\ last.room = id /\ last.type = "joinGame" /\ last.err = "full"
        /\ rooms[id].phase = "ready_to_start"
        /\ rooms[id].players[1] # Null /\ rooms[id].players[2] # Null

\* the lifecycle steps of the README: waiting_for_players -> ready_to_start
\* -> in_progress -> finished
LifecycleStep(p, q) ==
    \/ p = "waiting_for_players" /\ q = "ready_to_start"
    \/ p = "ready_to_start" /\ q = "in_progress"
    \/ p = "in_progress" /\ q = "finished"

LifecyclePhases == {"waiting_for_players", "ready_to_start", "in_progress", "finished"}

(***************************************************************************)
(* C17  Phase lifecycle.  As claimed: every successful joinGame,           *)
(* startGame, playCard, draw and pass keeps the phase or moves it one step *)
(* forward along waiting_for_players -> ready_to_start -> in_progress ->   *)
(* finished, and startGame succeeds only from ready_to_start.              *)
(***************************************************************************)
C17_FourPhaseChain ==
    \A id \in DOMAIN rooms :
        LET s == rooms[id] IN
        \A a \in JoinCalls(s) \cup StartCalls(s) \cup PlayCalls(s)
                 \cup DrawCalls(s) \cup PassCalls(s), seed \in Seeds :
            LET r == reduce(s, a, seed)
            IN  r.err = "none" =>
                    /\ r.state.phase \in LifecyclePhases
                    /\ r.state.phase = s.phase \/ LifecycleStep(s.phase, r.state.phase)
                    /\ a.type = "startGame" => s.phase = "ready_to_start"

(***************************************************************************)
(* C17 (amended)  Under any sequence of joinGame, startGame, playCard,     *)
(* chooseColor, draw and pass the phase only moves forward along           *)
(* waiting_for_players -> ready_to_start -> in_progress -> finished, one   *)
(* stage at a time and each stage by its own action (joinGame, startGame,  *)
(* playCard), except that in the action/wild build playing a non-winning   *)
(* Wild takes in_progress to await_color_choice and only chooseColor       *)
(* leaves that phase, back to in_progress; the number-only build has the   *)
(* four phases alone.  startGame succeeds only from ready_to_start, so a   *)
(* running or finished game is never re-dealt.                             *)
(***************************************************************************)
C17_PhaseLifecycle ==
    \A id \in DOMAIN rooms :
        LET s == rooms[id] IN
        /\ s.phase \in LifecyclePhases \cup {"await_color_choice"}
        /\ s.phase = "await_color_choice" => variant = "action"
        /\ \A a \in RuleCalls(s), seed \in Seeds :
              LET r == reduce(s, a, seed)
                  p == s.phase
                  q == r.state.phase
              IN  r.err = "none" =>
                      /\ \/ q = p
                         \/ LifecycleStep(p, q)
                               /\ a.type = (CASE q = "ready_to_start" -> "joinGame"
                                              [] q = "in_progress" -> "startGame"
                                              [] OTHER -> "playCard")
                         \/ /\ variant = "action"
                            /\ p = "in_progress" /\ q = "await_color_choice"
                            /\ a.type = "playCard"
                         \/ /\ variant = "action"
                            /\ p = "await_color_choice" /\ q = "in_progress"
                            /\ a.type = "chooseColor"
                      /\ a.type = "startGame" => p = "ready_to_start"
                      /\ p = "await_color_choice" => a.type = "chooseColor"

\* a game of the number-only build has run through all four phases
C17_Witness ==
    \E id \in DOMAIN rooms :
        /\ variant = "number"
        /\ rooms[id].phase = "finished"
        /\ last.room = id /\ last.type = "playCard" /\ last.err = "none"
        /\ moves[id] >= HandSize

\* the playCard calls of the current player that play a card of the given
\* action kind
PlaysOf(state, kinds) ==
    {a \in PlayCalls(state) :
        /\ Current(state) # Null
        /\ a.tgUserId = Current(state).tgUserId
        /\ a.handIndex >= 0 /\ a.handIndex < Len(Current(state).hand)
        /\ Current(state).hand[a.handIndex + 1].kind = "action"
        /\ Current(state).hand[a.handIndex + 1].action \in kinds}

(***************************************************************************)
(* C18  Draw2 penalty (action/wild build).  After player X plays a         *)
(* non-winning Draw2 through the reducer, the turn and the penalty are the *)
(* opponent's: the next successful draw is made by X's opponent, adds      *)
(* exactly 2 cards to the opponent's hand and none to X's, resets          *)
(* pendingDraw to 0, and the opponent's turn is then skipped (the opponent *)
(* cannot play, and the turn returns to X).                                *)
(***************************************************************************)
C18_Draw2Penalty ==
    \A id \in DOMAIN rooms :
        LET s == rooms[id]
            X == s.currentPlayerIdx
            O == Other(X)
        IN
        (variant = "action" /\ s.phase = "in_progress"
            /\ s.players[1].tgUserId # s.players[2].tgUserId) =>
        \A a \in PlaysOf(s, {"draw2"}) :
            LET r == reduce(s, a, 0)
                t == r.state
            IN  (r.err = "none" /\ t.phase # "finished") =>
                /\ t.currentPlayerIdx = O
                /\ t.pendingDraw = 2
                /\ \A u \in Callers, seed \in Seeds :
                      LET d == reduce(t, EngineActionOf("draw", t.id, u, 0, NoColor), seed)
                      IN  d.err = "none" =>
                            /\ Len(d.state.players[O + 1].hand)
                                  = Len(t.players[O + 1].hand) + 2
                            /\ d.state.players[X + 1].hand = t.players[X + 1].hand
                            /\ d.state.pendingDraw = 0
                            /\ \A i \in IndicesOf(d.state) :
                                  reduce(d.state,
                                         EngineActionOf("playCard", t.id,
                                                        t.players[O + 1].tgUserId, i, NoColor),
                                         0).err # "none"
                            /\ LET p == reduce(d.state,
                                               EngineActionOf("pass", t.id,
                                                   t.players[O + 1].tgUserId, 0, NoColor), 0)
                               IN  p.err = "none" /\ p.state.currentPlayerIdx = X

(***************************************************************************)
(* C19  Skip/Reverse (action/wild build).  After player X plays a          *)
(* non-winning Skip or Reverse through the reducer the opponent gets no    *)
(* turn: the resulting state has currentPlayerIdx = X, pendingSkip false   *)
(* and pendingDraw 0, and a Reverse gives the state a Skip of the same     *)
(* color gives, but for the card on top of the discard pile.               *)
(***************************************************************************)
C19_SkipReverse ==
    \A id \in DOMAIN rooms :
        LET s == rooms[id]
            X == s.currentPlayerIdx
        IN
        (variant = "action" /\ s.phase = "in_progress") =>
        \A a \in PlaysOf(s, {"skip", "reverse"}) :
            LET r == reduce(s, a, 0)
                t == r.state
                card == Current(s).hand[a.handIndex + 1]
                asSkip == [s EXCEPT !.players[X + 1].hand[a.handIndex + 1] =
                                        ActionCardOf(card.color, "skip")]
                rs == reduce(asSkip, a, 0)
            IN  (r.err = "none" /\ t.phase # "finished") =>
                /\ t.phase = "in_progress"
                /\ t.currentPlayerIdx = X
                /\ ~t.pendingSkip
                /\ t.pendingDraw = 0
                /\ t.players[Other(X) + 1] = s.players[Other(X) + 1]
                /\ Top(t.discardPile) = card
                /\ card.color = s.currentColor => rs.err = "none"
                /\ rs.err = "none" =>
                      t = [rs.state EXCEPT !.discardPile = t.discardPile]

\* a Reverse has just been played and the same player is on turn again
C19_Witness ==
    \E id \in DOMAIN rooms :
        LET s == rooms[id] IN
        /\ variant = "action" /\ s.phase = "in_progress"
        /\ last.room = id /\ last.type = "playCard" /\ last.err = "none"
        /\ Len(s.discardPile) >= 2
        /\ Top(s.discardPile).kind = "action"
        /\ Top(s.discardPile).action = "reverse"
        /\ ~s.pendingSkip /\ s.pendingDraw = 0
        /\ s.players[1].tgUserId # s.players[2].tgUserId

\* the playCard calls of the current player that play a Wild
WildPlays(state) ==
    {a \in PlayCalls(state) :
        /\ Current(state) # Null
        /\ a.tgUserId = Current(state).tgUserId
        /\ a.handIndex >= 0 /\ a.handIndex < Len(Current(state).hand)
        /\ Current(state).hand[a.handIndex + 1].kind = "wild"}

(***************************************************************************)
(* C20  Color-choice sub-phase (action/wild build).  After the current     *)
(* player plays a non-winning Wild the phase is await_color_choice with    *)
(* currentColor null and currentPlayerIdx unchanged; in that phase         *)
(* playCard, draw and pass fail with bad_phase and chooseColor by another  *)
(* user fails with turn; a successful chooseColor sets currentColor to the *)
(* chosen color, returns the phase to in_progress, and the reducer then    *)
(* passes the turn to the other player.                                    *)
(***************************************************************************)
C20_ColorChoice ==
    \A id \in DOMAIN rooms :
        LET s == rooms[id]
            X == s.currentPlayerIdx
        IN
        variant = "action" =>
        /\ s.phase = "in_progress" =>
              \A a \in WildPlays(s) :
                  LET r == reduce(s, a, 0)
                  IN  /\ r.err = "none" <=> (s.pendingDraw = 0 /\ ~s.pendingSkip)
                      /\ (r.err = "none" /\ r.state.phase # "finished") =>
                            /\ r.state.phase = "await_color_choice"
                            /\ r.state.currentColor = NoColor
                            /\ r.state.currentPlayerIdx = X
                            /\ Top(r.state.discardPile) = WildCard
        /\ s.phase = "await_color_choice" =>
              /\ s.currentColor = NoColor
              /\ \A a \in PlayCalls(s) \cup DrawCalls(s) \cup PassCalls(s),
                    seed \in Seeds :
                    LET r == reduce(s, a, seed)
                    IN  r.err = "bad_phase" /\ r.state = s
              /\ \A a \in ColorCalls(s) :
                    LET r == reduce(s, a, 0)
                    IN  IF a.tgUserId # Current(s).tgUserId
                        THEN r.err = "turn" /\ r.state = s
                        ELSE /\ r.err = "none"
                             /\ r.state = [s EXCEPT !.currentColor = a.color,
                                                    !.phase = "in_progress",
                                                    !.currentPlayerIdx = Other(X)]

\* a color has just been chosen for the Wild on top of the discard pile and
\* the turn has gone to the other player
C20_Witness ==
    \E id \in DOMAIN rooms :
        LET s == rooms[id] IN
        /\ variant = "action" /\ s.phase = "in_progress"
        /\ last.room = id /\ last.type = "chooseColor" /\ last.err = "none"
        /\ Top(s.discardPile) = WildCard
        /\ s.currentColor \in PlayColors
        /\ s.players[1].tgUserId # s.players[2].tgUserId

\* every card of a state: the two hands, the draw pile and the discard pile
AllCardsOf(state) ==
    HandOf(state, 1) \o HandOf(state, 2) \o state.drawPile \o state.discardPile

(***************************************************************************)
(* C21  Opening flip (action/wild build).  After any successful startGame  *)
(* the top (last) card of the discard pile is not a Wild, currentColor is  *)
(* that card's color and is not null, every card below the top of the      *)
(* discard pile is a Wild flipped before it, and the hands, the draw pile  *)
(* and the discard pile together still hold every card of the deck (56     *)
(* cards in the deck the build constructs).                                *)
(***************************************************************************)
C21_OpeningFlip ==
    /\ SrcActionDeckSize = 56
    /\ \A id \in DOMAIN rooms :
          variant = "action" =>
          \A a \in StartCalls(rooms[id]), seed \in Seeds :
              LET r == reduce(rooms[id], a, seed)
                  disc == r.state.discardPile
              IN  r.err = "none" =>
                    /\ Len(disc) >= 1
                    /\ Top(disc).kind # "wild"
                    /\ r.state.currentColor # NoColor
                    /\ r.state.currentColor = Top(disc).color
                    /\ \A j \in 1 .. (Len(disc) - 1) : disc[j] = WildCard
                    /\ CardCount(r.state) = DeckSize
                    /\ SameCards(AllCardsOf(r.state),
                                 actionDeckCards(NumColors, MaxValue, NumWilds))

\* a game of the action/wild build has just started on a colored opener that
\* lies on top of a Wild
C21_Witness ==
    \E id \in DOMAIN rooms :
        LET s == rooms[id] IN
        /\ variant = "action"
        /\ last.room = id /\ last.type = "startGame" /\ last.err = "none"
        /\ Len(s.discardPile) >= 2
        /\ s.discardPile[1] = WildCard
        /\ Top(s.discardPile).kind # "wild"
        /\ s.currentColor = Top(s.discardPile).color

(***************************************************************************)
(* C22  Pending draw (action/wild build).  While pendingDraw > 0 every     *)
(* playCard and pass of the current player fails with pending_draw, so     *)
(* draw is the only move that can succeed; the current player's draw       *)
(* succeeds whenever the piles still hold the owed cards, takes exactly    *)
(* max(1, pendingDraw) cards into the current player's hand, sets          *)
(* pendingDraw to 0 and leaves pendingSkip, currentPlayerIdx, the phase    *)
(* and the opponent's hand as they were.                                   *)
(***************************************************************************)
C22_PendingDraw ==
    \A id \in DOMAIN rooms :
        LET s == rooms[id]
            X == s.currentPlayerIdx
            n == Max(1, s.pendingDraw)
        IN
        (variant = "action" /\ s.phase = "in_progress" /\ s.pendingDraw > 0) =>
        /\ \A a \in PlayCalls(s) \cup PassCalls(s) :
              a.tgUserId = Current(s).tgUserId =>
                  LET r == reduce(s, a, 0)
                  IN  r.err = "pending_draw" /\ r.state = s
        /\ \A a \in DrawCalls(s), seed \in Seeds :
              a.tgUserId = Current(s).tgUserId =>
                  LET r == reduce(s, a, seed)
                      t == r.state
                  IN  /\ r.err = "none"
                          <=> Len(s.drawPile) + Len(s.discardPile) - 1 >= n
                      /\ r.err = "none" =>
                            /\ n = s.pendingDraw
                            /\ Len(t.players[X + 1].hand) = Len(Current(s).hand) + n
                            /\ SubSeq(t.players[X + 1].hand, 1, Len(Current(s).hand))
                                  = Current(s).hand
                            /\ Len(s.drawPile) >= n =>
                                  /\ t.players[X + 1].hand
                                        = Current(s).hand \o SubSeq(s.drawPile, 1, n)
                                  /\ t.drawPile = SubSeq(s.drawPile, n + 1, Len(s.drawPile))
                            /\ t.pendingDraw = 0
                            /\ t.pendingSkip = s.pendingSkip
                            /\ t.currentPlayerIdx = X
                            /\ t.phase = s.phase
                            /\ t.players[Other(X) + 1] = s.players[Other(X) + 1]
                            /\ CardCount(t) = CardCount(s)

\* the second move of a game: the two penalty cards of the Draw2 that was
\* played on the opener have just been drawn
C22_Witness ==
    \E id \in DOMAIN rooms :
        LET s == rooms[id] IN
        /\ variant = "action" /\ s.phase = "in_progress"
        /\ last.room = id /\ last.type = "draw" /\ last.err = "none"
        /\ moves[id] = 2
        /\ Len(s.discardPile) = 2
        /\ s.discardPile[1].kind # "wild"
        /\ Top(s.discardPile).kind = "action"
        /\ Top(s.discardPile).action = "draw2"
        /\ Len(Current(s).hand) = HandSize + 1
        /\ s.pendingDraw = 0

(***************************************************************************)
(* C23  After drawing, only the drawn card can be played (number-only      *)
(* build).  In every reachable state with hasDrawnThisTurn true the game   *)
(* is in progress and the only card of the current player's hand that      *)
(* playCard can accept is the card just drawn, the last of the hand: every *)
(* other index of the hand fails with illegal_move, the last index is      *)
(* accepted exactly when the drawn card is legal, and pass is accepted.    *)
(***************************************************************************)
C23_OnlyDrawnCardPlayable ==
    \A id \in DOMAIN rooms :
        LET s == rooms[id] IN
        (variant = "number" /\ s.hasDrawnThisTurn) =>
        /\ s.phase = "in_progress"
        /\ Len(Current(s).hand) >= 2
        /\ \A i \in 0 .. (Len(Current(s).hand) - 1) :
              LET r == reduce(s, EngineActionOf("playCard", id, Current(s).tgUserId,
                                                i, NoColor), 0)
                  drawn == i = Len(Current(s).hand) - 1
              IN  /\ ~drawn => (r.err = "illegal_move" /\ r.state = s)
                  /\ r.err = "none" => drawn
                  /\ drawn => (r.err = "none" <=> LegalOnTop(Current(s).hand[i + 1], s))
                  /\ drawn => r.err \in {"none", "illegal_move"}
        /\ reduce(s, EngineActionOf("pass", id, Current(s).tgUserId, 0, NoColor),
                  0).err = "none"

\* after a draw that produced a legal card the player has offered one of the
\* cards held before, which has been turned down
C23_Witness ==
    \E id \in DOMAIN rooms :
        LET s == rooms[id] IN
        /\ variant = "number" /\ s.phase = "in_progress" /\ s.hasDrawnThisTurn
        /\ last.room = id /\ last.type = "playCard" /\ last.err = "illegal_move"
        /\ LegalOnTop(Current(s).hand[Len(Current(s).hand)], s)

(***************************************************************************)
(* C24  A successful playCard removes exactly the card at handIndex from   *)
(* the current player's hand, keeps the remaining cards in their previous  *)
(* relative order, appends the played card as the new last element (top)   *)
(* of the discard pile, and leaves the opponent's hand, the draw pile and  *)
(* the earlier discard cards unchanged.                                    *)
(***************************************************************************)
C24_PlayCardFrame ==
    \A id \in DOMAIN rooms :
        LET s == rooms[id]
            X == s.currentPlayerIdx
        IN
        \A a \in PlayCalls(s) :
            LET r == reduce(s, a, 0)
                t == r.state
                i == a.handIndex
                old == Current(s).hand
                new == t.players[X + 1].hand
            IN  r.err = "none" =>
                /\ i >= 0 /\ i < Len(old)
                /\ Len(new) = Len(old) - 1
                /\ \A k \in 1 .. Len(new) : new[k] = IF k <= i THEN old[k] ELSE old[k + 1]
                /\ t.discardPile = Append(s.discardPile, old[i + 1])
                /\ Top(t.discardPile) = old[i + 1]
                /\ SubSeq(t.discardPile, 1, Len(s.discardPile)) = s.discardPile
                /\ t.players[Other(X) + 1] = s.players[Other(X) + 1]
                /\ t.drawPile = s.drawPile
                /\ t.players[X + 1].id = s.players[X + 1].id
                /\ t.players[X + 1].tgUserId = s.players[X + 1].tgUserId

\* a card has just been played by a player who still holds two or more cards
C24_Witness ==
    \E id \in DOMAIN rooms :
        LET s == rooms[id] IN
        /\ last.room = id /\ last.type = "playCard" /\ last.err = "none"
        /\ s.phase = "in_progress"
        /\ Len(s.discardPile) >= 2
        /\ \E p \in 1 .. 2 :
              /\ Len(s.players[p].hand) = HandSize - 1
              /\ Len(s.players[3 - p].hand) = HandSize
        /\ moves[id] = 1

(***************************************************************************)
(* C25  A successful draw never advances the turn: it leaves               *)
(* currentPlayerIdx, phase, currentColor, winnerId, the opponent's hand    *)
(* and the top card of the discard pile unchanged, also when it refills    *)
(* the draw pile from the discard pile; in the number-only build it        *)
(* appends exactly one card to the end of the current player's hand, the   *)
(* front card of the draw pile (of the refilled draw pile when the draw    *)
(* pile was empty), and the rest of that pile is the new draw pile.        *)
(***************************************************************************)
C25_DrawFrame ==
    \A id \in DOMAIN rooms :
        LET s == rooms[id]
            X == s.currentPlayerIdx
        IN
        \A a \in DrawCalls(s), seed \in Seeds :
            LET r == reduce(s, a, seed)
                t == r.state
                old == Current(s).hand
                new == t.players[X + 1].hand
            IN  r.err = "none" =>
                /\ t.currentPlayerIdx = X
                /\ t.phase = s.phase
                /\ t.currentColor = s.currentColor
                /\ t.winnerId = s.winnerId
                /\ t.players[Other(X) + 1] = s.players[Other(X) + 1]
                /\ Top(t.discardPile) = Top(s.discardPile)
                /\ SubSeq(new, 1, Len(old)) = old
                /\ Len(new) > Len(old)
                /\ variant = "number" =>
                      /\ Len(new) = Len(old) + 1
                      /\ IF Len(s.drawPile) > 0
                         THEN /\ new = Append(old, s.drawPile[1])
                              /\ t.drawPile = Tail(s.drawPile)
                              /\ t.discardPile = s.discardPile
                         ELSE /\ t.discardPile = <<Top(s.discardPile)>>
                              /\ SameCards(<<new[Len(new)]>> \o t.drawPile,
                                           SubSeq(s.discardPile, 1, Len(s.discardPile) - 1))

\* a card has just been drawn from a non-empty draw pile of the number-only
\* build and the player who drew is still on turn
C25_Witness ==
    \E id \in DOMAIN rooms :
        LET s == rooms[id] IN
        /\ variant = "number" /\ s.phase = "in_progress"
        /\ last.room = id /\ last.type = "draw" /\ last.err = "none" /\ ~last.refill
        /\ s.hasDrawnThisTurn
        /\ Len(Current(s).hand) >= 2
        /\ Len(s.discardPile) >= 2

(***************************************************************************)
(* C26  Round-robin deal (number-only build).  For the shuffled deck       *)
(* d[0..] startGame gives player 0 the cards d[0], d[2], ..., d[12] in     *)
(* that order, player 1 the cards d[1], d[3], ..., d[13] in that order,    *)
(* makes d[14] the opener on the discard pile, leaves d[15..] in order as  *)
(* the draw pile and sets currentColor to the color of d[14] (hands of     *)
(* HandSize cards in the explored games: d[2 * HandSize] is the opener).   *)
(***************************************************************************)
C26_RoundRobinDeal ==
    \A id \in DOMAIN rooms :
        variant = "number" =>
        \A a \in StartCalls(rooms[id]), seed \in Seeds :
            LET r == reduce(rooms[id], a, seed)
                t == r.state
                d == createDeckNumber(seed)
            IN  r.err = "none" =>
                /\ t.players[1].hand = [k \in 1 .. HandSize |-> d[2 * k - 1]]
                /\ t.players[2].hand = [k \in 1 .. HandSize |-> d[2 * k]]
                /\ t.discardPile = <<d[2 * HandSize + 1]>>
                /\ t.drawPile = SubSeq(d, 2 * HandSize + 2, Len(d))
                /\ t.currentColor = d[2 * HandSize + 1].color

\* a game of the number-only build has just been dealt from a deck for which
\* dealing a whole hand at a time would have given player 0 other cards
C26_Witness ==
    \E id \in DOMAIN rooms, seed \in Seeds :
        LET s == rooms[id]
            d == createDeckNumber(seed)
        IN  /\ variant = "number"
            /\ last.room = id /\ last.type = "startGame" /\ last.err = "none"
            /\ s.players[1].hand = [k \in 1 .. HandSize |-> d[2 * k - 1]]
            /\ s.players[1].hand # SubSeq(d, 1, HandSize)
            /\ s.drawPile = SubSeq(d, 2 * HandSize + 2, Len(d))

(***************************************************************************)
(* C27  Winner consistency.  In every reachable state winnerId is set if   *)
(* and only if the phase is finished; in phase finished exactly one player *)
(* has an empty hand and winnerId is that player's id; in phase            *)
(* in_progress both hands are non-empty.                                   *)
(***************************************************************************)
C27_WinnerConsistency ==
    \A id \in DOMAIN rooms :
        LET s == rooms[id]
            empty == {p \in 1 .. 2 : s.players[p] # Null /\ Len(s.players[p].hand) = 0}
        IN
        /\ s.winnerId # Undefined <=> s.phase = "finished"
        /\ s.phase = "finished" =>
              /\ s.players[1] # Null /\ s.players[2] # Null
              /\ Cardinality(empty) = 1
              /\ \A p \in empty : s.winnerId = s.players[p].id
              /\ s.winnerId \in {"p0", "p1"}
        /\ s.phase = "in_progress" =>
              /\ s.players[1] # Null /\ s.players[2] # Null
              /\ empty = {}

\* the second player has just won: the hand of p1 is empty, the hand of p0 is
\* not
C27_Witness ==
    \E id \in DOMAIN rooms :
        LET s == rooms[id] IN
        /\ s.phase = "finished" /\ s.winnerId = "p1"
        /\ last.room = id /\ last.type = "playCard" /\ last.err = "none"
        /\ Len(s.players[2].hand) = 0
        /\ Len(s.players[1].hand) > 0

(***************************************************************************)
(* C28  Per-room serialization.  session.apply reads the room's state,     *)
(* runs reduce and writes the result back as one uninterrupted step: for   *)
(* any interleaving of command handlers on the same room, every change of  *)
(* a room's stored state is reduce applied to the state stored just before *)
(* (the state the previous transition wrote), and it is the state the      *)
(* handler that made it holds as its result; so the stored state is always *)
(* the successful actions applied one after another and no update is lost. *)
(***************************************************************************)
C28_Serialized ==
    [][/\ \A id \in (DOMAIN rooms) \cap (DOMAIN rooms') :
             rooms'[id] # rooms[id] =>
                 /\ \E a \in EngineCalls(rooms[id]), seed \in Seeds :
                       LET r == reduce(rooms[id], a, seed)
                       IN  r.err = "none" /\ rooms'[id] = r.state
                 /\ \E h \in HandlerIds :
                       /\ handlers[h].pc = "idle" /\ handlers'[h].pc = "replying"
                       /\ handlers'[h].room = id
                       /\ handlers'[h].after = rooms'[id]
       /\ \A h \in HandlerIds :
             (handlers[h].pc = "idle" /\ handlers'[h].pc = "replying"
                 /\ handlers'[h].cmd # "endgame" /\ handlers'[h].after # Null) =>
                 /\ handlers'[h].room \in DOMAIN rooms
                 /\ rooms'[handlers'[h].room] = handlers'[h].after
      ]_vars

\* two handlers are suspended in their replies for the same room: the second
\* was applied to what the first had stored, so the state the first holds is
\* no longer the stored one
C28_Witness ==
    \E id \in DOMAIN rooms :
        /\ handlers[1].pc = "replying" /\ handlers[1].room = id
        /\ handlers[2].pc = "replying" /\ handlers[2].room = id
        /\ handlers[1].after # Null
        /\ handlers[1].after # rooms[id]
        /\ handlers[2].after = rooms[id]
        /\ rooms[id].phase = "in_progress"
        /\ \E a \in EngineCalls(handlers[1].after), seed \in Seeds :
              LET r == reduce(handlers[1].after, a, seed)
              IN  r.err = "none" /\ rooms[id] = r.state

(***************************************************************************)
(* C29  Room isolation.  Applying any action to room X through             *)
(* session.apply, creating a room, or removing room X never changes the    *)
(* stored GameState of a different room Y, nor removes Y; createRoom       *)
(* always registers a new id that was not in use, with a state in phase    *)
(* waiting_for_players and two empty slots.                                *)
(***************************************************************************)
C29_RoomIsolation ==
    [][/\ \A Y \in DOMAIN rooms :
             Y # last'.room => (Y \in DOMAIN rooms' /\ rooms'[Y] = rooms[Y])
       /\ \A Y \in (DOMAIN rooms') \ (DOMAIN rooms) :
             /\ last'.type = "createRoom" /\ last'.room = Y
             /\ rooms'[Y] = createEmptyGame(Y)
       /\ last'.type = "createRoom" =>
             /\ last'.room \notin DOMAIN rooms
             /\ last'.room \in DOMAIN rooms'
             /\ rooms'[last'.room].id = last'.room
             /\ rooms'[last'.room].phase = "waiting_for_players"
             /\ rooms'[last'.room].players = <<Null, Null>>
       /\ last'.type = "removeRoom" => last'.room \notin DOMAIN rooms'
      ]_vars

\* a move has just been made in one room while a second room, created later,
\* still waits for its players
C29_Witness ==
    /\ DOMAIN rooms = TwoRoomIds
    /\ \E X \in TwoRoomIds, Y \in TwoRoomIds :
          /\ X # Y
          /\ last.room = X /\ last.type \in MoveTypes /\ last.err = "none"
          /\ rooms[X].phase = "in_progress"
          /\ rooms[Y].phase = "waiting_for_players"
          /\ rooms[Y].players[1] # Null

\* the action tags session.apply is called with
EngineTypes ==
    {"createGame", "joinGame", "startGame", "playCard", "draw", "pass", "chooseColor"}

\* every call of session.apply on an id that is not registered fails with
\* 'Room not found' and leaves the registry as it is
UnregisteredFails ==
    \A id \in RoomIds \ DOMAIN rooms :
        \A t \in EngineTypes, u \in Callers, i \in -1 .. 1, c \in PlayColors, seed \in Seeds :
            LET out == updateRoom(id, EngineActionOf(t, id, u, i, c), seed)
            IN  out.err = "room_not_found" /\ out.rooms = rooms

(***************************************************************************)
(* C30  As claimed: session.apply on a room id that was never created or   *)
(* that has been removed fails with 'Room not found' and does not create   *)
(* or resurrect a room; after removeRoom no action on that id can succeed  *)
(* (here: none has succeeded while the /endgame handler that removed the   *)
(* room is still sending its notices).                                     *)
(***************************************************************************)
C30_RemovedIdNeverSucceeds ==
    /\ UnregisteredFails
    /\ \A h \in HandlerIds :
          (handlers[h].pc = "replying" /\ handlers[h].cmd = "endgame"
              /\ handlers[h].after # Null) =>
              ~(/\ last.room = handlers[h].room
                /\ last.type \in EngineTypes
                /\ last.err = "none")

(***************************************************************************)
(* C30 (amended)  session.apply on a room id that is not registered, never *)
(* created or removed, fails with 'Room not found' and does not create or  *)
(* resurrect a room: an id enters the registry through createRoom alone,   *)
(* and after removeRoom no action on that id succeeds until createRoom     *)
(* draws the same id again for a new room, which starts empty in phase     *)
(* waiting_for_players.                                                    *)
(***************************************************************************)
C30_UnregisteredRoomRejects ==
    /\ []UnregisteredFails
    /\ [][/\ (last'.type \in EngineTypes /\ last'.room \notin DOMAIN rooms) =>
                (last'.err = "room_not_found" /\ rooms' = rooms)
          /\ (last'.type \in EngineTypes /\ last'.err = "none") =>
                last'.room \in DOMAIN rooms
          /\ last'.type = "removeRoom" => last'.room \notin DOMAIN rooms'
          /\ \A id \in (DOMAIN rooms') \ (DOMAIN rooms) :
                /\ last'.type = "createRoom" /\ last'.room = id
                /\ rooms'[id] = createEmptyGame(id)
         ]_vars

\* a join has just been turned away with 'Room not found' from the id of a
\* room with two players that /endgame has removed
C30_Witness ==
    /\ last.type = "joinGame" /\ last.err = "room_not_found"
    /\ last.room \in RoomIds
    /\ last.room \notin DOMAIN rooms
    /\ \E h \in HandlerIds :
          /\ handlers[h].pc = "replying" /\ handlers[h].cmd = "endgame"
          /\ handlers[h].room = last.room
          /\ handlers[h].after # Null
          /\ handlers[h].after.players[2] # Null

(***************************************************************************)
(* C31  Determinism.  The calls that are claimed to involve no shuffle:    *)
(* joinGame, playCard, pass, chooseColor and draw.  A call is determined   *)
(* by the state when reduce gives the same result (the same next state or  *)
(* the same error code) whatever the random source yields.                 *)
(***************************************************************************)
ShufflelessCalls(state) ==
    JoinCalls(state) \cup PlayCalls(state) \cup PassCalls(state)
    \cup ColorCalls(state) \cup DrawCalls(state)

Determined(state, action) ==
    \A s1 \in Seeds, s2 \in Seeds :
        reduce(state, action, s1) = reduce(state, action, s2)

\* Statement as written: in both builds every joinGame, playCard, pass and
\* chooseColor, and every draw on a state whose draw pile is not empty, is
\* determined by the state and the action.
C31_NonEmptyPileDeterminism ==
    \A id \in DOMAIN rooms :
        \A a \in ShufflelessCalls(rooms[id]) :
            (a.type = "draw" => Len(rooms[id].drawPile) > 0)
                => Determined(rooms[id], a)

(***************************************************************************)
(* C31 (amended)  In both builds every joinGame, playCard, pass and        *)
(* chooseColor, and every draw on a state whose draw pile holds at least   *)
(* the max(1, pendingDraw) cards the draw takes, gives the same result     *)
(* (next state or error code) for every outcome of the random source.      *)
(***************************************************************************)
C31_Determinism ==
    \A id \in DOMAIN rooms :
        \A a \in ShufflelessCalls(rooms[id]) :
            (a.type = "draw" => ~Refills(rooms[id]))
                => Determined(rooms[id], a)

\* a draw that takes its card from the draw pile succeeds with one and the
\* same result for every seed, in a state whose discard pile the seeds would
\* shuffle into different orders
C31_Witness ==
    \E id \in DOMAIN rooms :
        LET s == rooms[id] IN
        /\ s.phase = "in_progress"
        /\ ~Refills(s)
        /\ Len(s.discardPile) >= 3
        /\ \E s1 \in Seeds, s2 \in Seeds :
              shuffle(SubSeq(s.discardPile, 1, Len(s.discardPile) - 1), s1)
                  # shuffle(SubSeq(s.discardPile, 1, Len(s.discardPile) - 1), s2)
        /\ \E a \in DrawCalls(s) :
              /\ reduce(s, a, 0).err = "none"
              /\ Determined(s, a)

(***************************************************************************)
(* C32  Active color tracks the top card (number-only build).  In every    *)
(* reachable state with phase in_progress or finished the discard pile is  *)
(* not empty, currentColor is a color and it is the color of the last card *)
(* of the discard pile; so for every card of the deck, matching the card   *)
(* on currentColor and matching it on the color of the top card agree.     *)
(***************************************************************************)
C32_ActiveColorTracksTop ==
    \A id \in DOMAIN rooms :
        LET s == rooms[id] IN
        (variant = "number" /\ s.phase \in {"in_progress", "finished"}) =>
            /\ Len(s.discardPile) > 0
            /\ s.currentColor # NoColor
            /\ s.currentColor = Top(s.discardPile).color
            /\ \A k \in 1 .. Len(AllCardsOf(s)) :
                  LET c == AllCardsOf(s)[k] IN
                  (c.color = s.currentColor) <=> (c.color = Top(s.discardPile).color)

\* a card has just been played on a card of another color (a match by
\* value), and the active color is the color of the card played
C32_Witness ==
    \E id \in DOMAIN rooms :
        LET s == rooms[id]
            n == Len(s.discardPile)
        IN
        /\ variant = "number"
        /\ s.phase = "in_progress"
        /\ last.room = id /\ last.type = "playCard" /\ last.err = "none"
        /\ n >= 2
        /\ s.discardPile[n - 1].color # s.discardPile[n].color
        /\ s.currentColor = s.discardPile[n].color

(***************************************************************************)
(* C33  No stuck turn (number-only build).  In every reachable state with  *)
(* phase in_progress the current player has at least one action that       *)
(* succeeds, whatever the random source yields: a playCard at some index   *)
(* of the hand, a draw, or a pass.                                         *)
(***************************************************************************)
TurnCalls(state) ==
    {a \in PlayCalls(state) \cup DrawCalls(state) \cup PassCalls(state) :
        Current(state) # Null /\ a.tgUserId = Current(state).tgUserId}

C33_NoStuckTurn ==
    \A id \in DOMAIN rooms :
        LET s == rooms[id] IN
        (variant = "number" /\ s.phase = "in_progress") =>
            \E a \in TurnCalls(s) : \A seed \in Seeds : reduce(s, a, seed).err = "none"

\* the current player holds no playable card and the draw pile is empty: the
\* one action that succeeds is the draw that refills the pile from the
\* discard pile
C33_Witness ==
    \E id \in DOMAIN rooms :
        LET s == rooms[id] IN
        /\ variant = "number"
        /\ s.phase = "in_progress"
        /\ Len(s.drawPile) = 0
        /\ ~HasPlayableN(s, Current(s))
        /\ \A a \in TurnCalls(s) :
              (reduce(s, a, 0).err = "none") <=> (a.type = "draw")
        /\ \E a \in TurnCalls(s) : reduce(s, a, 0).err = "none"

(***************************************************************************)
(* C34  Pending effects are inert in the number-only build.  In every      *)
(* state reachable through reduce pendingDraw is 0 and pendingSkip is      *)
(* false; so no playCard fails with pending_draw or pending_skip, every    *)
(* draw that succeeds adds exactly one card to the hand of the current     *)
(* player, and every pass, and every playCard that does not end the game,  *)
(* moves the turn to the other player.                                     *)
(***************************************************************************)
C34_PendingInert ==
    \A id \in DOMAIN rooms :
        LET s == rooms[id] IN
        variant = "number" =>
            /\ s.pendingDraw = 0
            /\ s.pendingSkip = FALSE
            /\ \A a \in PlayCalls(s) \cup DrawCalls(s) \cup PassCalls(s) :
                  \A seed \in Seeds :
                      LET res == reduce(s, a, seed) IN
                      /\ res.err \notin {"pending_draw", "pending_skip"}
                      /\ (a.type = "draw" /\ res.err = "none") =>
                            /\ Len(Current(res.state).hand) = Len(Current(s).hand) + 1
                            /\ res.state.currentPlayerIdx = s.currentPlayerIdx
                      /\ (a.type = "pass" /\ res.err = "none") =>
                            res.state.currentPlayerIdx = Other(s.currentPlayerIdx)
                      /\ (a.type = "playCard" /\ res.err = "none"
                            /\ res.state.phase # "finished") =>
                            res.state.currentPlayerIdx = Other(s.currentPlayerIdx)

\* the second player has drawn a card and passed: the turn is back with the
\* first player, who holds a card to play, and nothing is pending
C34_Witness ==
    \E id \in DOMAIN rooms :
        LET s == rooms[id] IN
        /\ variant = "number"
        /\ s.phase = "in_progress"
        /\ last.room = id /\ last.type = "pass" /\ last.err = "none"
        /\ s.currentPlayerIdx = 0
        /\ s.pendingDraw = 0 /\ s.pendingSkip = FALSE
        /\ Len(s.players[2].hand) >= 2
        /\ \E a \in PlayCalls(s) : reduce(s, a, 0).err = "none"

(***************************************************************************)
(* C35  Exact card accounting.  In every room whose game has started, in   *)
(* both builds, the draw pile, the discard pile and the two hands together *)
(* hold every card of the deck built by createDeck exactly as often as the *)
(* deck holds it: no card is duplicated, lost or exchanged for another by  *)
(* playCard, draw or a reshuffle.                                          *)
(***************************************************************************)
DeckCards ==
    IF variant = "number" THEN numberDeckCards(NumColors, MaxValue)
    ELSE actionDeckCards(NumColors, MaxValue, NumWilds)

C35_ExactAccounting ==
    \A id \in DOMAIN rooms :
        rooms[id].phase \in StartedPhases => SameCards(AllCardsOf(rooms[id]), DeckCards)

\* cards have been played and a draw has just refilled the draw pile from the
\* shuffled discard pile; the cards are those of the deck
C35_Witness ==
    \E id \in DOMAIN rooms :
        LET s == rooms[id] IN
        /\ s.phase = "in_progress"
        /\ last.room = id /\ last.type = "draw" /\ last.err = "none" /\ last.refill
        /\ Len(s.drawPile) >= 2
        /\ Len(HandOf(s, 1)) # Len(HandOf(s, 2))
        /\ SameCards(AllCardsOf(s), DeckCards)

(***************************************************************************)
(* C36  Distinct players.  joinGame never seats one external user id in    *)
(* both slots of a room: whenever both slots are taken the two players     *)
(* have different tgUserIds, and in a running game the turn check rejects  *)
(* every caller for at least one of the two seats.                         *)
(***************************************************************************)
C36_DistinctPlayers ==
    \A id \in DOMAIN rooms :
        LET s == rooms[id] IN
        (s.players[1] # Null /\ s.players[2] # Null) =>
            /\ s.players[1].tgUserId # s.players[2].tgUserId
            /\ s.phase \in {"in_progress", "await_color_choice"} =>
                  \A u \in Callers :
                      \/ NotCurrentPlayer(s.players[1], u)
                      \/ NotCurrentPlayer(s.players[2], u)

====
